---- MODULE Spec2Model ----
(***************************************************************************)
(* Skootrs project orchestration engine.                                   *)
(*                                                                         *)
(* The model follows one run of Project::create (skootrs-bin helpers.rs):  *)
(* LocalProjectService::initialize with its six pipeline steps, then the   *)
(* manifest store and the reference cache.  The service set is either the  *)
(* Local* services the binary wires up or the Mock* services of the unit   *)
(* tests in skootrs-lib/src/service/project.rs.                            *)
(*                                                                         *)
(* External effects are state: the working-copy directory and its files,   *)
(* the local git index / HEAD, and the forge (repo, pushed branch, branch  *)
(* protection, vulnerability reporting).  Every subprocess has three       *)
(* outcomes: it could not be spawned, it exited non-zero, it exited 0.     *)
(***************************************************************************)
EXTENDS Integers, Sequences, FiniteSets, TLC

VARIABLES
    impl,        \* "Local" | "Mock": which service implementations are wired
    params,      \* ProjectCreateParams of this run
    pc,          \* position of the run in the pipeline
    log,         \* history of the calls made, in order
    wc,          \* the directory parent_path/<repo name>: "absent" | "foreign" | "clone"
    disk,        \* files of that directory: resolved path -> content
    git,         \* local git state of the working copy: index, head, commits
    forge,       \* forge-side state of the repository
    repo,        \* InitializedRepo once created
    source,      \* InitializedSource once cloned
    ecosystem,   \* InitializedEcosystem once initialized
    tasks,       \* the futures of the initialize_all in progress
    srcFacets,   \* result of initialize_all(source plan)
    apiFacets,   \* result of initialize_all(api plan)
    result,      \* what initialize returned
    cache,       \* InMemoryProjectReferenceCache.cache
    cacheFile,   \* contents of ./skootcache
    rd,          \* the read-side operation in progress (get, get_facet_with_content, ...)
    call         \* a conversion being applied: function, argument, results

vars == <<impl, params, pc, log, wc, disk, git, forge, repo, source, ecosystem,
          tasks, srcFacets, apiFacets, result, cache, cacheFile, rd, call>>

None == [kind |-> "None"]

\* Option::Some(v)
Some(v) == [kind |-> "Some", value |-> v]

\* No read-side operation has been requested.
Idle == [pc |-> "idle"]

\* Placeholder text the unit tests use to make a mock fail.
ErrorName == "error"

Impls == {"Local", "Mock"}

\* Values the string fields of the params are drawn from.
Names == {"demo", ErrorName}
ParentPaths == {"/tmp", ErrorName}
Ecosystems == {"Go", "Maven"}
OwnerKinds == {"User", "Organization"}

ProjectCreateParams ==
    [name : Names, repo_name : Names, owner_kind : OwnerKinds,
     ecosystem : Ecosystems, eco_key : Names, parent_path : ParentPaths]

(***************************************************************************)
(* Facet catalogue.                                                        *)
(***************************************************************************)
SupportedFacetType ==
    {"Readme", "SecurityInsights", "SLSABuild", "SBOMGenerator", "License",
     "StaticCodeAnalysis", "Gitignore", "BranchProtection", "CodeReview",
     "DependencyUpdateTool", "Fuzzing", "PublishPackages", "PinnedDependencies",
     "SAST", "SecurityPolicy", "VulnerabilityScanner", "GUACForwardingConfig",
     "Allstar", "Scorecard", "DefaultSourceCode", "VulnerabilityReporting",
     "Other"}

\* A path is the sequence of its components: "./.github/workflows" is
\* <<".", ".github", "workflows">>.
File(name, path) == [name |-> name, path |-> path]

\* Files rendered by DefaultSourceBundleContentHandler.
DefaultSourceBundleContent(t) ==
    CASE t = "Readme"           -> << File("README.md", <<".">>) >>
      [] t = "License"          -> << File("LICENSE", <<".">>) >>
      [] t = "SecurityPolicy"   -> << File("SECURITY.md", <<".">>) >>
      [] t = "Scorecard"        -> << File("scorecard.yml", <<".", ".github", "workflows">>) >>
      [] t = "SecurityInsights" -> << File("SECURITY-INSIGHTS.yml", <<".">>) >>
      [] t = "SAST"             -> << File("codeql.yml", <<".", ".github", "workflows">>) >>

\* Variant of GoGithubSourceBundleContent whose fuzzing workflow takes the
\* file name of the CodeQL workflow.
GoGithubSourceBundleContent_SameName(t) ==
    CASE t = "Gitignore"            -> << File(".gitignore", <<".">>) >>
      [] t = "SLSABuild"            -> << File("releases.yml", <<".github", "workflows">>),
                                          File("Dockerfile.goreleaser", <<".">>),
                                          File(".goreleaser.yml", <<".">>) >>
      [] t = "DependencyUpdateTool" -> << File("dependabot.yml", <<".github">>) >>
      [] t = "Fuzzing"              -> << File("codeql.yml", <<".github", "workflows">>) >>
      [] t = "DefaultSourceCode"    -> << File("main.go", <<".">>) >>

\* Files rendered by GoGithubSourceBundleContentHandler.
GoGithubSourceBundleContent(t) ==
    CASE t = "Gitignore"            -> << File(".gitignore", <<".">>) >>
      [] t = "SLSABuild"            -> << File("releases.yml", <<".github", "workflows">>),
                                          File("Dockerfile.goreleaser", <<".">>),
                                          File(".goreleaser.yml", <<".">>) >>
      [] t = "DependencyUpdateTool" -> << File("dependabot.yml", <<".github">>) >>
      [] t = "Fuzzing"              -> << File("cifuzz.yml", <<".github", "workflows">>) >>
      [] t = "DefaultSourceCode"    -> << File("main.go", <<".">>) >>

DefaultHandled ==
    {"Readme", "License", "SecurityPolicy", "Scorecard", "SecurityInsights", "SAST"}

LanguageHandled ==
    {"Gitignore", "SLSABuild", "DependencyUpdateTool", "Fuzzing", "DefaultSourceCode"}

\* The match of SourceBundleFacetService::initialize: the files of facet type
\* t; every other arm is todo!() / unimplemented!().
generate_content(t) ==
    IF t \in DefaultHandled THEN DefaultSourceBundleContent(t)
    ELSE GoGithubSourceBundleContent(t)

\* TRUE when SourceBundleFacetService::initialize panics instead of returning.
SourceBundlePanics(eco, t) ==
    \/ eco = "Maven"
    \/ t \notin (DefaultHandled \cup LanguageHandled)

\* The rendered bytes of a template: determined by the facet, the file and
\* the project the template is rendered for.
Rendered(t, name, project_name) ==
    [kind |-> "template", facet |-> t, name |-> name, project |-> project_name]

(***************************************************************************)
(* Default facet set (FacetSetParamsGenerator).                            *)
(***************************************************************************)
\* FacetCreateParams::SourceBundle / ::APIBundle for a facet type.
FacetCreateParams(variant, t) == [variant |-> variant, facet_type |-> t]

generate_default_source_bundle_facet_params ==
    LET supported_facets ==
            << "Readme", "License", "Gitignore", "SecurityPolicy", "SecurityInsights",
               "SLSABuild", "DependencyUpdateTool", "Scorecard", "SAST",
               "DefaultSourceCode" >>
    IN  [i \in DOMAIN supported_facets |->
            FacetCreateParams("SourceBundle", supported_facets[i])]

generate_default_api_bundle ==
    LET supported_facets == << "BranchProtection", "VulnerabilityReporting" >>
    IN  [i \in DOMAIN supported_facets |->
            FacetCreateParams("APIBundle", supported_facets[i])]

\* Variant of generate_default that puts the API bundle first.
generate_default_ApiFirst ==
    generate_default_api_bundle \o generate_default_source_bundle_facet_params

generate_default ==
    generate_default_source_bundle_facet_params \o generate_default_api_bundle

(***************************************************************************)
(* Helpers.                                                                *)
(***************************************************************************)
\* One entry of the call history.  kind: "start" | "ok" | "err" of a pipeline
\* step, or "write" | "hash" | "git" | "put" | "poll" of one operation inside it.
Ev(kind, what, arg) == [kind |-> kind, what |-> what, arg |-> arg]

NoFiles == [p \in {} |-> None]

SubprocessOutcomes == {"spawn_err", "exit_fail", "exit_ok"}

\* Path::new(source.path).join(path).join(name) as the file system resolves
\* it below the working copy: "." components drop out.
Resolve(path, name) == SelectSeq(path, LAMBDA c : c # ".") \o <<name>>

\* sha2::Sha256 over a file's bytes, lowercase hex: a digest that identifies
\* the bytes.
Sha256Hex(bytes) ==
    IF bytes.kind = "template"
    THEN "sha256(" \o bytes.facet \o "/" \o bytes.name \o "@" \o bytes.project \o ")"
    ELSE "sha256(" \o bytes.kind \o ")"

OwnerName == "alice"

(***************************************************************************)
(* Texts.  Where a conversion looks inside a string (split, prefix, URL    *)
(* parse) the string is a text: the sequence of its tokens, each separator *)
(* character (":", " ", "/") a token of its own and each maximal run of    *)
(* other characters one token.                                             *)
(***************************************************************************)
Ok(v) == [kind |-> "Ok", value |-> v]

Err(e) == [kind |-> "Err", error |-> e]

StartsWith(s, sep) == Len(s) >= Len(sep) /\ SubSeq(s, 1, Len(sep)) = sep

RECURSIVE Split(_, _)
\* str::split(sep).collect::<Vec<_>>(): the pieces between the occurrences
\* of sep, empty pieces included.
Split(s, sep) ==
    IF s = <<>> THEN << <<>> >>
    ELSE IF StartsWith(s, sep)
         THEN << <<>> >> \o Split(SubSeq(s, Len(sep) + 1, Len(s)), sep)
         ELSE LET rest == Split(Tail(s), sep)
              IN  << <<Head(s)>> \o rest[1] >> \o Tail(rest)

RECURSIVE Concat(_)
\* The string a text spells (to_string of a &str slice).
Concat(t) == IF t = <<>> THEN "" ELSE Head(t) \o Concat(Tail(t))

\* InitializedGithubRepo::host_url
HostUrl == << "https://", "github.com" >>

\* Variant of full_url that leaves the owner out.
full_url_NoOwner(r) == HostUrl \o << "/", r.name >>

\* InitializedGithubRepo::full_url: "{host_url}/{owner}/{name}"
full_url(r) == HostUrl \o << "/", r.organization.name, "/", r.name >>

\* The futures initialize_all builds from a plan, one per entry, not yet
\* polled.
NewTasks(plan) ==
    [i \in 1..Len(plan) |->
        [variant |-> plan[i].variant, facet_type |-> plan[i].facet_type,
         status |-> "idle", facet |-> None]]

(***************************************************************************)
(* Initial state: a run of create is about to call initialize.             *)
(***************************************************************************)
\* A project recorded by an earlier run.
OldUrl == << "https://", "github.com", "/", "alice", "/", "old" >>

\* What a directory that already exists at the clone target holds.
StaleFiles == (<<"README.md">> :> [kind |-> "stale"])

\* A file at ./skootcache that serde_json cannot read as a set of strings
\* (cut short, or not written by this program).
NotJson == [kind |-> "text"]

\* The binary's runs take the repo name from the project name and clone
\* below the configured path (prompt_create); the directory may already be
\* there.  The unit tests' mocks touch neither the disk nor the cache file.
Init ==
    /\ impl \in Impls
    /\ params \in ProjectCreateParams
    /\ impl = "Local" => params.repo_name = params.name /\ params.parent_path = "/tmp"
    /\ pc = "repo"
    /\ log = <<>>
    /\ \/ wc = "absent" /\ disk = NoFiles
       \/ impl = "Local" /\ wc = "foreign" /\ disk = StaleFiles
    /\ git = [index |-> NoFiles, head |-> NoFiles, commits |-> <<>>]
    /\ forge = [exists |-> FALSE, files |-> NoFiles, commits |-> <<>>,
                branch_protection |-> FALSE, vulnerability_reporting |-> FALSE]
    /\ repo = None
    /\ source = None
    /\ ecosystem = None
    /\ tasks = <<>>
    /\ srcFacets = None
    /\ apiFacets = None
    /\ result = None
    /\ cache = {}
    /\ cacheFile \in {None} \cup IF impl = "Local"
                                 THEN {[kind |-> "json", urls |-> {OldUrl}], NotJson}
                                 ELSE {}
    /\ rd = Idle
    /\ call = None

(***************************************************************************)
(* Step 1: RepoService::initialize.                                        *)
(***************************************************************************)
\* What the call can return.  Local: the POST to the forge succeeds or not.
\* Mock: fails exactly for the repo name "error".
RepoInitializeOutcomes ==
    IF impl = "Mock"
    THEN IF params.repo_name = ErrorName THEN {"err"} ELSE {"ok"}
    ELSE {"ok", "err"}

\* Variant of Fail that records the error and carries on.
Fail_Swallowed(step, evs) ==
    /\ log' = log \o evs \o << Ev("err", step, <<>>) >>
    /\ result' = result
    /\ pc' = pc

\* A step returned Err: initialize returns it (the ? operator).
Fail(step, evs) ==
    /\ log' = log \o evs \o << Ev("err", step, <<>>) >>
    /\ result' = [kind |-> "Err", step |-> step]
    /\ pc' = "failed"

RepoInitialize ==
    /\ pc = "repo"
    /\ \E o \in RepoInitializeOutcomes :
         IF o = "ok"
         THEN /\ repo' = [kind |-> "Github", name |-> params.repo_name,
                          organization |-> [kind |-> params.owner_kind,
                                            name |-> OwnerName]]
              /\ forge' = IF impl = "Local" THEN [forge EXCEPT !.exists = TRUE]
                          ELSE forge
              /\ log' = log \o << Ev("start", "repo", <<>>), Ev("ok", "repo", <<>>) >>
              /\ pc' = "source"
              /\ UNCHANGED result
         ELSE /\ Fail("repo", << Ev("start", "repo", <<>>) >>)
              /\ UNCHANGED <<repo, forge>>
    /\ UNCHANGED <<rd, call, impl, params, wc, disk, git, source, ecosystem, tasks,
                   srcFacets, apiFacets, cache, cacheFile>>

(***************************************************************************)
(* Step 2: SourceService::initialize -> RepoService::clone_local.          *)
(***************************************************************************)
\* Outcomes of `git clone <full_url>` run in parent_path.  A clone into an
\* existing non-empty directory exits non-zero.
GitCloneOutcomes ==
    IF wc = "absent" THEN SubprocessOutcomes ELSE {"spawn_err", "exit_fail"}

\* GithubRepoHandler::clone_local: Command::output()? is an error only when
\* the process could not be run; the exit status is not looked at.
clone_local(o) == IF o = "spawn_err" THEN "err" ELSE "ok"

\* InitializedSource { path: format!("{}/{}", path, name) }
SourcePath(parent, r) == [path |-> <<parent, r.name>>]

SourceInitialize ==
    /\ pc = "source"
    /\ IF impl = "Mock"
       THEN /\ IF params.parent_path = ErrorName
               THEN Fail("source", << Ev("start", "source", <<>>) >>) /\ UNCHANGED source
               ELSE /\ source' = SourcePath(params.parent_path, repo)
                    /\ log' = log \o << Ev("start", "source", <<>>),
                                        Ev("ok", "source", <<>>) >>
                    /\ pc' = "ecosystem"
                    /\ UNCHANGED result
            /\ UNCHANGED <<wc, disk, git>>
       ELSE \E o \in GitCloneOutcomes :
            /\ IF o = "exit_ok"
               THEN /\ wc' = "clone"
                    /\ disk' = NoFiles
                    /\ git' = [index |-> NoFiles, head |-> NoFiles, commits |-> <<>>]
               ELSE UNCHANGED <<wc, disk, git>>
            /\ IF clone_local(o) = "ok"
               THEN /\ source' = SourcePath(params.parent_path, repo)
                    /\ log' = log \o << Ev("start", "source", <<>>),
                                        Ev("git", "clone", <<o>>),
                                        Ev("ok", "source", <<>>) >>
                    /\ pc' = "ecosystem"
                    /\ UNCHANGED result
               ELSE /\ Fail("source", << Ev("start", "source", <<>>),
                                        Ev("git", "clone", <<o>>) >>)
                    /\ UNCHANGED source
    /\ UNCHANGED <<rd, call, impl, params, forge, repo, ecosystem, tasks, srcFacets,
                   apiFacets, cache, cacheFile>>

(***************************************************************************)
(* Step 3: EcosystemService::initialize.                                   *)
(***************************************************************************)
\* Outcomes of `go mod init` / `mvn archetype:generate` run with
\* current_dir(source.path): without that directory nothing can be spawned.
EcosystemToolOutcomes ==
    IF wc = "absent" THEN {"spawn_err"} ELSE SubprocessOutcomes

\* Variant of EcosystemHandlerInitialize that takes every run that could be
\* spawned for a success, whatever its exit status.
EcosystemHandlerInitialize_AnyExit(o) == IF o = "spawn_err" THEN "err" ELSE "ok"

\* LocalGoEcosystemHandler / LocalMavenEcosystemHandler::initialize:
\* output()? and then output.status.success().
EcosystemHandlerInitialize(o) == IF o = "exit_ok" THEN "ok" ELSE "err"

\* The InitializedEcosystem mirroring the params.
InitializedEcosystemOf(p) ==
    IF p.ecosystem = "Go"
    THEN [kind |-> "Go", name |-> p.name, host |-> p.eco_key]
    ELSE [kind |-> "Maven", group_id |-> p.eco_key, artifact_id |-> p.name]

\* The file the tooling leaves in the working copy.
EcosystemFiles(p) ==
    IF p.ecosystem = "Go"
    THEN (<<"go.mod">> :> [kind |-> "tool", tool |-> "go"])
    ELSE (<<p.name, "pom.xml">> :> [kind |-> "tool", tool |-> "mvn"])

EcosystemInitialize ==
    /\ pc = "ecosystem"
    /\ IF impl = "Mock"
       THEN /\ IF params.eco_key = ErrorName
               THEN /\ Fail("ecosystem", << Ev("start", "ecosystem", <<>>) >>)
                    /\ UNCHANGED <<ecosystem, tasks>>
               ELSE /\ ecosystem' = InitializedEcosystemOf(params)
                    /\ log' = log \o << Ev("start", "ecosystem", <<>>),
                                        Ev("ok", "ecosystem", <<>>) >>
                    /\ pc' = "source_facets"
                    /\ tasks' = NewTasks(generate_default_source_bundle_facet_params)
                    /\ UNCHANGED result
            /\ UNCHANGED disk
       ELSE \E o \in EcosystemToolOutcomes :
            /\ disk' = IF o = "exit_ok" THEN EcosystemFiles(params) @@ disk ELSE disk
            /\ IF EcosystemHandlerInitialize(o) = "ok"
               THEN /\ ecosystem' = InitializedEcosystemOf(params)
                    /\ log' = log \o << Ev("start", "ecosystem", <<>>),
                                        Ev("ok", "ecosystem", <<>>) >>
                    /\ pc' = "source_facets"
                    /\ tasks' = NewTasks(generate_default_source_bundle_facet_params)
                    /\ UNCHANGED result
               ELSE /\ Fail("ecosystem", << Ev("start", "ecosystem", <<>>) >>)
                    /\ UNCHANGED <<ecosystem, tasks>>
    /\ UNCHANGED <<rd, call, impl, params, wc, git, forge, repo, source, srcFacets,
                   apiFacets, cache, cacheFile>>

(***************************************************************************)
(* Source driver file operations (LocalSourceService).                     *)
(***************************************************************************)
\* Variant of write_file that clears a README.md left by an earlier write.
write_file_Alone(d, path, name, contents) ==
    (Resolve(path, name) :> contents)
        @@ [p \in DOMAIN d \ { << "README.md" >> } |-> d[p]]

\* write_file: create_dir_all, then fs::write of the full contents.
write_file(d, path, name, contents) == (Resolve(path, name) :> contents) @@ d

\* hash_file: the digest of the file as it is on disk.
hash_file(d, path, name) == Sha256Hex(d[Resolve(path, name)])

\* SourceBundleContent.source_files_content of a facet type.
SourceFilesContent(t, project_name) ==
    LET files == generate_content(t)
    IN  [i \in 1..Len(files) |->
            [name |-> files[i].name, path |-> files[i].path,
             content |-> Rendered(t, files[i].name, project_name)]]

RECURSIVE WriteFiles(_, _, _)
\* The write loop of SourceBundleFacetService::initialize, first n files.
WriteFiles(d, sfc, n) ==
    IF n = 0 THEN d
    ELSE write_file(WriteFiles(d, sfc, n - 1), sfc[n].path, sfc[n].name, sfc[n].content)

\* Variant of HashFiles that hashes the bundle's first file for every entry.
HashFiles_FirstFile(d, sfc) ==
    [i \in 1..Len(sfc) |->
        [name |-> sfc[i].name, path |-> sfc[i].path,
         hash |-> hash_file(d, sfc[1].path, sfc[1].name)]]

\* The SourceFile records, hashed from disk after the write loop.
HashFiles(d, sfc) ==
    [i \in 1..Len(sfc) |->
        [name |-> sfc[i].name, path |-> sfc[i].path,
         hash |-> hash_file(d, sfc[i].path, sfc[i].name)]]

\* SourceBundleFacetService::initialize for facet type t when its k-th file
\* operation fails (k = 0: none fails; 1..n: the k-th write; n+1..2n: the
\* hash of file k-n).  Gives the disk afterwards, the operations done and
\* the result.
SourceBundleInitialize(t, project_name, d, k) ==
    LET sfc == SourceFilesContent(t, project_name)
        n == Len(sfc)
        written == IF k = 0 \/ k > n THEN n ELSE k - 1
        hashed == IF k = 0 THEN n ELSE IF k > n THEN k - n - 1 ELSE 0
        d1 == WriteFiles(d, sfc, written)
    IN  [disk |-> d1,
         events |-> [i \in 1..written |->
                        Ev("write", t, Resolve(sfc[i].path, sfc[i].name))]
                    \o [i \in 1..hashed |->
                        Ev("hash", t, Resolve(sfc[i].path, sfc[i].name))],
         status |-> IF k = 0 THEN "ok" ELSE "err",
         facet |-> IF k = 0
                   THEN [kind |-> "SourceBundle", facet_type |-> t,
                         source_files |-> Some(HashFiles(d1, sfc)),
                         source_files_content |-> None]
                   ELSE None]

\* MockFacetService::initialize for SourceBundle params.
MockSourceBundleInitialize(project_name) ==
    [status |-> IF project_name = ErrorName THEN "err" ELSE "ok",
     facet |-> IF project_name = ErrorName THEN None
               ELSE [kind |-> "SourceBundle", facet_type |-> "Readme",
                     source_files |-> Some(<< [name |-> "README.md", path |-> <<".">>,
                                               hash |-> "fakehash"] >>),
                     source_files_content |-> None]]

(***************************************************************************)
(* RootFacetService::initialize_all.                                       *)
(***************************************************************************)
\* Variant of try_join_all that waits for every future and keeps whatever
\* each produced (a join_all whose errors are dropped).
try_join_all_KeepGoing(ts) ==
    IF \A i \in DOMAIN ts : ts[i].status \in {"ok", "err"}
    THEN [kind |-> "Ok", facets |-> [i \in DOMAIN ts |-> ts[i].facet]]
    ELSE [kind |-> "Pending"]

\* futures::future::try_join_all over the facet futures: the first Err is
\* the result; Ok with the outputs in order once every future is Ok.
try_join_all(ts) ==
    IF \E i \in DOMAIN ts : ts[i].status = "err" THEN [kind |-> "Err"]
    ELSE IF \A i \in DOMAIN ts : ts[i].status = "ok"
         THEN [kind |-> "Ok", facets |-> [i \in DOMAIN ts |-> ts[i].facet]]
         ELSE [kind |-> "Pending"]

\* The future the join polls next: the first one not yet polled.
NextIdle(ts) == CHOOSE i \in DOMAIN ts :
                    /\ ts[i].status = "idle"
                    /\ \A j \in 1..(i - 1) : ts[j].status # "idle"

HasIdle(ts) == \E i \in DOMAIN ts : ts[i].status = "idle"

\* The "start" entry of a fan-out step, logged when its first future is polled.
StartOf(step, ts) ==
    IF \A i \in DOMAIN ts : ts[i].status = "idle"
    THEN << Ev("start", step, <<>>) >> ELSE <<>>

(***************************************************************************)
(* Step 4: initialize_all(source plan).  One future is polled per action;  *)
(* a source-bundle future has no suspension point and completes in its     *)
(* first poll.                                                             *)
(***************************************************************************)
SourceFacetPoll ==
    /\ pc = "source_facets"
    /\ HasIdle(tasks)
    /\ tasks[NextIdle(tasks)].variant = "SourceBundle"
    /\ LET i == NextIdle(tasks)
           t == tasks[i].facet_type
           begin == StartOf("source_facets", tasks) \o << Ev("poll", t, <<>>) >>
       IN
       IF impl = "Local" /\ SourceBundlePanics(ecosystem.kind, t)
       THEN /\ pc' = "panicked"
            /\ log' = log \o begin \o << Ev("panic", t, <<>>) >>
            /\ UNCHANGED <<disk, wc, tasks, srcFacets, result>>
       ELSE \E k \in 0..(2 * Len(generate_content(t))) :
            LET run == IF impl = "Local"
                       THEN SourceBundleInitialize(t, params.name, disk, k)
                       ELSE MockSourceBundleInitialize(params.name) @@
                            [disk |-> disk, events |-> <<>>]
                ts == [tasks EXCEPT ![i].status = run.status, ![i].facet = run.facet]
                joined == try_join_all(ts)
            IN  /\ impl = "Mock" => k = 0
                /\ disk' = run.disk
                /\ wc' = IF wc = "absent" /\ run.disk # disk THEN "foreign" ELSE wc
                /\ CASE joined.kind = "Err" ->
                          /\ Fail("source_facets", begin \o run.events)
                          /\ tasks' = ts
                          /\ UNCHANGED srcFacets
                     [] joined.kind = "Ok" ->
                          /\ log' = log \o begin \o run.events
                                        \o << Ev("ok", "source_facets", <<>>) >>
                          /\ srcFacets' = joined.facets
                          /\ tasks' = ts
                          /\ pc' = "commit"
                          /\ UNCHANGED result
                     [] OTHER ->
                          /\ log' = log \o begin \o run.events
                          /\ tasks' = ts
                          /\ UNCHANGED <<pc, srcFacets, result>>
    /\ UNCHANGED <<rd, call, impl, params, git, forge, repo, source, ecosystem, apiFacets,
                   cache, cacheFile>>

(***************************************************************************)
(* Step 5: SourceService::commit_and_push_changes.                         *)
(***************************************************************************)
\* The runs of `git add .`, `git commit -m`, `git push` in the working
\* copy: each is Command::output()?, so the next command runs unless the
\* previous one could not be spawned.
GitRuns ==
    { <<a>> : a \in {"spawn_err"} }
    \cup { <<a, c>> : a \in {"exit_fail", "exit_ok"}, c \in {"spawn_err"} }
    \cup { <<a, c, p>> : a \in {"exit_fail", "exit_ok"},
                         c \in {"exit_fail", "exit_ok"}, p \in SubprocessOutcomes }

\* The git state after the commands of a run (g: local git, f: forge).
GitAdd(g, d, o) == IF o = "exit_ok" THEN [g EXCEPT !.index = d] ELSE g

GitCommit(g, o, message) ==
    IF o = "exit_ok"
    THEN [g EXCEPT !.head = g.index, !.commits = Append(g.commits, message)]
    ELSE g

GitPush(f, g, o) ==
    IF o = "exit_ok" THEN [f EXCEPT !.files = g.head, !.commits = g.commits] ELSE f

GitAfter(g, d, run, message) ==
    LET g1 == GitAdd(g, d, run[1])
    IN  IF Len(run) >= 2 THEN GitCommit(g1, run[2], message) ELSE g1

ForgeAfter(f, g, d, run, message) ==
    IF Len(run) = 3 THEN GitPush(f, GitAfter(g, d, run, message), run[3]) ELSE f

\* Which runs the environment allows: outside a clone of the repo no git
\* command exits 0, without the directory none can be spawned, and `git
\* commit` exits 0 only when the index differs from HEAD.
GitRunPossible(w, g, d, run) ==
    /\ w = "absent" => run = <<"spawn_err">>
    /\ w = "foreign" => \A j \in DOMAIN run : run[j] # "exit_ok"
    /\ (Len(run) >= 2 /\ run[2] = "exit_ok") => GitAdd(g, d, run[1]).index # g.head
    /\ (Len(run) = 3 /\ run[3] = "exit_ok") => forge.exists

\* What commit_and_push_changes returns for a run of its three commands.
commit_and_push_changes(run) ==
    IF \E j \in DOMAIN run : run[j] = "spawn_err" THEN "err" ELSE "ok"

GitEvents(run) ==
    [j \in DOMAIN run |-> Ev("git", <<"add", "commit", "push">>[j], <<run[j]>>)]

InitialCommitMessage == "Initialized project"

NewApiTasks == NewTasks(generate_default_api_bundle)

\* Variant of CommitAndPush that launches the git commands and moves on
\* without waiting for them to return.
CommitAndPush_Detached ==
    /\ pc = "commit"
    /\ log' = Append(log, Ev("start", "commit", <<>>))
    /\ pc' = "api_facets"
    /\ tasks' = NewApiTasks
    /\ UNCHANGED <<rd, call, impl, params, wc, disk, git, forge, repo, source, ecosystem,
                   srcFacets, apiFacets, result, cache, cacheFile>>

CommitAndPush ==
    /\ pc = "commit"
    /\ IF impl = "Mock"
       THEN \* MockSourceService: Err only for the message "error"
            /\ log' = log \o << Ev("start", "commit", <<>>), Ev("ok", "commit", <<>>) >>
            /\ pc' = "api_facets"
            /\ tasks' = NewApiTasks
            /\ UNCHANGED <<git, forge, result>>
       ELSE \E run \in GitRuns :
            /\ GitRunPossible(wc, git, disk, run)
            /\ git' = GitAfter(git, disk, run, InitialCommitMessage)
            /\ forge' = ForgeAfter(forge, git, disk, run, InitialCommitMessage)
            /\ IF commit_and_push_changes(run) = "ok"
               THEN /\ log' = log \o << Ev("start", "commit", <<>>) >> \o GitEvents(run)
                                  \o << Ev("ok", "commit", <<>>) >>
                    /\ pc' = "api_facets"
                    /\ tasks' = NewApiTasks
                    /\ UNCHANGED result
               ELSE /\ Fail("commit", << Ev("start", "commit", <<>>) >> \o GitEvents(run))
                    /\ UNCHANGED tasks
    /\ UNCHANGED <<rd, call, impl, params, wc, disk, repo, source, ecosystem, srcFacets,
                   apiFacets, cache, cacheFile>>

(***************************************************************************)
(* Step 6: initialize_all(api plan).  An API-bundle future suspends on its *)
(* HTTP request: the join polls every future once, in plan order, and the  *)
(* responses then arrive in any order.                                     *)
(***************************************************************************)
\* The endpoint a GithubAPIBundleHandler facet PUTs to.
ApiEndpoint(t, r) ==
    IF t = "BranchProtection"
    THEN "/repos/" \o r.organization.name \o "/" \o r.name \o "/branches/main/protection"
    ELSE "/repos/" \o r.organization.name \o "/" \o r.name \o "/private-vulnerability-reporting"

\* The APIBundleFacet generate_branch_protection / generate_vulnerability_reporting
\* return on success.
APIBundleFacetOf(t, r) ==
    IF t = "BranchProtection"
    THEN [kind |-> "APIBundle", facet_type |-> "BranchProtection",
          apis |-> << [name |-> "Enforce Branch Protection",
                       url |-> ApiEndpoint(t, r), response |-> "json"] >>]
    ELSE [kind |-> "APIBundle", facet_type |-> "VulnerabilityReporting",
          apis |-> << [name |-> "Enabling vulnerability reporting",
                       url |-> ApiEndpoint(t, r), response |-> "Success"] >>]

\* MockFacetService::initialize for APIBundle params.
MockAPIBundleInitialize(project_name) ==
    [status |-> IF project_name = ErrorName THEN "err" ELSE "ok",
     facet |-> IF project_name = ErrorName THEN None
               ELSE [kind |-> "APIBundle", facet_type |-> "BranchProtection",
                     apis |-> << [name |-> "test", url |-> "https://foo.bar/test",
                                  response |-> "worked"] >>]]

\* The forge once the PUT of facet type t has been applied.
ForgeApply(f, t) ==
    IF t = "BranchProtection" THEN [f EXCEPT !.branch_protection = TRUE]
    ELSE [f EXCEPT !.vulnerability_reporting = TRUE]

\* The forge states possible when requests of the facet types in ts may or
\* may not have been applied.
ForgeMaybe(f, ts) ==
    { [f EXCEPT !.branch_protection = @ \/ ("BranchProtection" \in a),
                !.vulnerability_reporting = @ \/ ("VulnerabilityReporting" \in a)]
      : a \in SUBSET ts }

\* FacetMapKey::Type(f.facet_type())
TypeKey(t) == [kind |-> "Type", value |-> t]

\* Variant of CollectFacets that keys each facet by the type its plan entry
\* asked for instead of the type the facet reports.
CollectFacets_ByRequestedType(fs) ==
    [k \in { TypeKey(generate_default[i].facet_type) : i \in DOMAIN fs } |->
        fs[CHOOSE i \in DOMAIN fs : TypeKey(generate_default[i].facet_type) = k]]

\* Variant of CollectFacets that keeps the source-bundle facets only.
CollectFacets_SourceOnly(fs) ==
    LET keys == { TypeKey(fs[i].facet_type) :
                    i \in { j \in DOMAIN fs : fs[j].kind = "SourceBundle" } }
    IN  [k \in keys |-> fs[CHOOSE i \in DOMAIN fs : TypeKey(fs[i].facet_type) = k]]

\* .map(|f| (FacetMapKey::Type(f.facet_type()), f)).collect::<HashMap<..>>():
\* a later facet replaces an earlier one under the same key.
CollectFacets(fs) ==
    LET keys == { TypeKey(fs[i].facet_type) : i \in DOMAIN fs }
        Last(k) == CHOOSE i \in DOMAIN fs :
                       /\ TypeKey(fs[i].facet_type) = k
                       /\ \A j \in DOMAIN fs :
                              TypeKey(fs[j].facet_type) = k => j <= i
    IN  [k \in keys |-> fs[Last(k)]]

\* The InitializedProject initialize returns.
InitializedProject(r, e, src, sfs, afs) ==
    [repo |-> r, ecosystem |-> e, source |-> src, facets |-> CollectFacets(sfs \o afs)]

\* The join of the api plan completed with every facet Ok: collect and return.
ReturnProject(evs, afs) ==
    /\ log' = log \o evs \o << Ev("ok", "api_facets", <<>>) >>
    /\ apiFacets' = afs
    /\ result' = [kind |-> "Ok",
                  project |-> InitializedProject(repo, ecosystem, source, srcFacets, afs)]
    /\ pc' = "done"

\* First poll of the next API future.  Local: the request goes out (for
\* BranchProtection after a client rebuild that can fail).  Mock: the
\* future completes at once.
ApiFacetPoll ==
    /\ pc = "api_facets"
    /\ HasIdle(tasks)
    /\ tasks[NextIdle(tasks)].variant = "APIBundle"
    /\ LET i == NextIdle(tasks)
           t == tasks[i].facet_type
           begin == StartOf("api_facets", tasks) \o << Ev("poll", t, <<>>) >>
       IN
       IF impl = "Mock"
       THEN LET run == MockAPIBundleInitialize(params.name)
                ts == [tasks EXCEPT ![i].status = run.status, ![i].facet = run.facet]
                joined == try_join_all(ts)
            IN  /\ tasks' = ts
                /\ CASE joined.kind = "Err" ->
                          Fail("api_facets", begin) /\ UNCHANGED apiFacets
                     [] joined.kind = "Ok" -> ReturnProject(begin, joined.facets)
                     [] OTHER -> /\ log' = log \o begin
                                 /\ UNCHANGED <<pc, apiFacets, result>>
       ELSE \E built \in IF t = "BranchProtection" THEN BOOLEAN ELSE {TRUE} :
            IF built
            THEN /\ tasks' = [tasks EXCEPT ![i].status = "pending"]
                 /\ log' = log \o begin \o << Ev("put", t, <<>>) >>
                 /\ UNCHANGED <<pc, apiFacets, result>>
            ELSE /\ tasks' = [tasks EXCEPT ![i].status = "err"]
                 /\ Fail("api_facets", begin)
                 /\ UNCHANGED apiFacets
    /\ UNCHANGED <<rd, call, impl, params, wc, disk, git, forge, repo, source, ecosystem,
                   srcFacets, cache, cacheFile>>

\* The response of one request in flight arrives.
ApiFacetResponse ==
    /\ pc = "api_facets"
    /\ ~HasIdle(tasks)
    /\ \E i \in DOMAIN tasks, o \in {"ok", "err"} :
         /\ tasks[i].status = "pending"
         /\ LET t == tasks[i].facet_type
                ts == [tasks EXCEPT ![i].status = o,
                                    ![i].facet = IF o = "ok"
                                                 THEN APIBundleFacetOf(t, repo)
                                                 ELSE None]
                joined == try_join_all(ts)
                inFlight == { tasks[j].facet_type : j \in { j \in DOMAIN tasks :
                                                      tasks[j].status = "pending" } }
            IN  /\ tasks' = ts
                /\ CASE joined.kind = "Err" ->
                          \* the join returns; the other futures are dropped
                          /\ forge' \in ForgeMaybe(forge, inFlight)
                          /\ Fail("api_facets", << Ev("response", t, <<o>>) >>)
                          /\ UNCHANGED apiFacets
                     [] joined.kind = "Ok" ->
                          /\ forge' = ForgeApply(forge, t)
                          /\ ReturnProject(<< Ev("response", t, <<o>>) >>, joined.facets)
                     [] OTHER ->
                          /\ forge' = ForgeApply(forge, t)
                          /\ log' = log \o << Ev("response", t, <<o>>) >>
                          /\ UNCHANGED <<pc, apiFacets, result>>
    /\ UNCHANGED <<rd, call, impl, params, wc, disk, git, repo, source, ecosystem,
                   srcFacets, cache, cacheFile>>

(***************************************************************************)
(* Project::create after initialize returned Ok: the reference cache is    *)
(* loaded, the manifest is written, committed and pushed, and the URL is   *)
(* recorded.                                                               *)
(***************************************************************************)
\* FacetMapKey::Name(x); x is a text.
NameKey(x) == [kind |-> "Name", value |-> x]

\* Variant of FacetMapKeyToString that writes every key with the Name tag.
FacetMapKeyToString_NameTag(k) ==
    IF k.kind = "Name" THEN << "Name", ":", " " >> \o k.value
    ELSE << "Name", ":", " ", k.value >>

\* From<FacetMapKey> for String: "Name: {x}" / "Type: {x}", the type written
\* by its variant name (Display of SupportedFacetType is its Debug).
FacetMapKeyToString(k) ==
    IF k.kind = "Name" THEN << "Name", ":", " " >> \o k.value
    ELSE << "Type", ":", " ", k.value >>

\* TryFrom<String> for FacetMapKey (FromStr is the same code): split on
\* ": ", exactly two parts, the tag first; a type is parsed by strum's
\* EnumString, which accepts exactly the variant names.
FacetMapKeyTryFrom(value) ==
    LET parts == Split(value, << ":", " " >>)
    IN  IF Len(parts) # 2 THEN Err("Invalid facet map key")
        ELSE IF parts[1] = << "Name" >> THEN Ok(NameKey(parts[2]))
        ELSE IF parts[1] = << "Type" >>
             THEN IF Concat(parts[2]) \in SupportedFacetType
                  THEN Ok(TypeKey(Concat(parts[2])))
                  ELSE Err("Matching variant not found")
             ELSE Err("Invalid facet map key")

\* Variant of SourceFileToString that leaves the path out.
SourceFileToString_NoPath(f) == f.name \o << ":" >> \o f.hash

\* From<SourceFile> for String: "{name}:{path}:{hash}"; the fields are texts.
SourceFileToString(f) == f.name \o << ":" >> \o f.path \o << ":" >> \o f.hash

\* TryFrom<String> for SourceFile: split on ':', exactly three parts.
SourceFileTryFrom(value) ==
    LET parts == Split(value, << ":" >>)
    IN  IF Len(parts) # 3 THEN Err("Invalid source file string")
        ELSE Ok([name |-> parts[1], path |-> parts[2], hash |-> parts[3]])

RECURSIVE JoinPath(_)
\* The text of a path given by its components.
JoinPath(path) ==
    IF path = <<>> THEN <<>>
    ELSE IF Len(path) = 1 THEN << path[1] >>
    ELSE << path[1], "/" >> \o JoinPath(Tail(path))

\* A SourceFile with its three String fields as texts, and back.
SourceFileText(sf) ==
    [name |-> << sf.name >>, path |-> JoinPath(sf.path), hash |-> << sf.hash >>]

SourceFileOfText(tf) ==
    LET comps == Split(tf.path, << "/" >>)
    IN  [name |-> Concat(tf.name),
         path |-> [i \in DOMAIN comps |-> Concat(comps[i])],
         hash |-> Concat(tf.hash)]

\* serde of an InitializedFacet: a SourceFile is written as its string form
\* (serde into = "String"), everything else field by field.
SerializeFacet(f) ==
    IF f.kind = "SourceBundle" /\ f.source_files # None
    THEN [f EXCEPT !.source_files =
              Some([i \in DOMAIN f.source_files.value |->
                      SourceFileToString(SourceFileText(f.source_files.value[i]))])]
    ELSE f

\* serde_json::to_string_pretty(&project): the facet map is written with its
\* keys in string form.
Serialize(project) ==
    [kind |-> "manifest", repo |-> project.repo, ecosystem |-> project.ecosystem,
     source |-> project.source,
     facets |-> [ks \in { FacetMapKeyToString(k) : k \in DOMAIN project.facets } |->
                    SerializeFacet(project.facets[CHOOSE k \in DOMAIN project.facets :
                                                      FacetMapKeyToString(k) = ks])]]

\* TRUE when serde can read the facet back: every SourceFile string parses.
FacetParses(sf) ==
    (sf.kind = "SourceBundle" /\ sf.source_files # None)
    => \A i \in DOMAIN sf.source_files.value :
          SourceFileTryFrom(sf.source_files.value[i]).kind = "Ok"

DeserializeFacet(sf) ==
    IF sf.kind = "SourceBundle" /\ sf.source_files # None
    THEN [sf EXCEPT !.source_files =
              Some([i \in DOMAIN sf.source_files.value |->
                      SourceFileOfText(SourceFileTryFrom(sf.source_files.value[i]).value)])]
    ELSE sf

\* serde_json::from_str::<InitializedProject>(&skootrs_file): fails unless
\* the content is a manifest whose keys and source files all parse.
Deserialize(content) ==
    IF content.kind # "manifest" THEN Err("serde")
    ELSE IF \E ks \in DOMAIN content.facets :
               \/ FacetMapKeyTryFrom(ks).kind # "Ok"
               \/ ~FacetParses(content.facets[ks])
         THEN Err("serde")
         ELSE Ok([repo |-> content.repo, ecosystem |-> content.ecosystem,
                  source |-> content.source,
                  facets |-> [k \in { FacetMapKeyTryFrom(ks).value :
                                         ks \in DOMAIN content.facets } |->
                                 DeserializeFacet(content.facets[
                                     CHOOSE ks \in DOMAIN content.facets :
                                         FacetMapKeyTryFrom(ks).value = k])]])

ManifestPath == <<".">>

ManifestName == ".skootrs"

ManifestCommitMessage == "Updated skootrs project state"

\* InMemoryProjectReferenceCache::load_or_create("./skootcache")
LoadOrCreate ==
    /\ pc = "done"
    /\ impl = "Local"
    /\ IF cacheFile.kind = "json"
       THEN \* load() is Ok
            /\ cache' = cacheFile.urls
            /\ pc' = "state_store"
            /\ log' = Append(log, Ev("ok", "load_or_create", <<>>))
            /\ UNCHANGED cacheFile
       ELSE \* load() failed, the file missing or unreadable: save() the
            \* empty cache
            \E saved \in BOOLEAN :
              /\ cache' = {}
              /\ cacheFile' = IF saved THEN [kind |-> "json", urls |-> {}] ELSE cacheFile
              /\ pc' = IF saved THEN "state_store" ELSE "create_failed"
              /\ log' = Append(log, Ev(IF saved THEN "ok" ELSE "err",
                                       "load_or_create", <<>>))
    /\ UNCHANGED <<rd, call, impl, params, wc, disk, git, forge, repo, source, ecosystem,
                   tasks, srcFacets, apiFacets, result>>

\* Variant of AfterStateStore that goes on to record the URL whatever the
\* state store returned.
AfterStateStore_Ignored(returned) == "cache_set"

\* `git_state_store.create(project.clone()).await?` in Project::create: an
\* Err ends create, Ok goes on to local_cache.set.
AfterStateStore(returned) == IF returned = "ok" THEN "cache_set" ELSE "create_failed"

\* GitProjectStateStore::create
StateStoreCreate ==
    /\ pc = "state_store"
    /\ \E written \in BOOLEAN :
         IF ~written
         THEN /\ pc' = "create_failed"
              /\ log' = Append(log, Ev("err", "state_store", <<>>))
              /\ UNCHANGED <<disk, git, forge>>
         ELSE LET d1 == write_file(disk, ManifestPath, ManifestName,
                                   Serialize(result.project))
              IN  \E run \in GitRuns :
                    /\ GitRunPossible(wc, git, d1, run)
                    /\ disk' = d1
                    /\ git' = GitAfter(git, d1, run, ManifestCommitMessage)
                    /\ forge' = ForgeAfter(forge, git, d1, run, ManifestCommitMessage)
                    /\ log' = log \o << Ev("write", "manifest",
                                           Resolve(ManifestPath, ManifestName)) >>
                                  \o GitEvents(run)
                                  \o << Ev(commit_and_push_changes(run),
                                           "state_store", <<>>) >>
                    /\ pc' = AfterStateStore(commit_and_push_changes(run))
    /\ UNCHANGED <<rd, call, impl, params, wc, repo, source, ecosystem, tasks, srcFacets,
                   apiFacets, result, cache, cacheFile>>

\* InMemoryProjectReferenceCache::set(project.repo.full_url())
CacheSet ==
    /\ pc = "cache_set"
    /\ cache' = cache \cup { full_url(result.project.repo) }
    /\ \E saved \in BOOLEAN :
         /\ cacheFile' = IF saved THEN [kind |-> "json", urls |-> cache'] ELSE cacheFile
         /\ pc' = IF saved THEN "created" ELSE "create_failed"
         /\ log' = Append(log, Ev(IF saved THEN "ok" ELSE "err", "cache_set", <<>>))
    /\ UNCHANGED <<rd, call, impl, params, wc, disk, git, forge, repo, source, ecosystem,
                   tasks, srcFacets, apiFacets, result>>

Next ==
    \/ RepoInitialize
    \/ SourceInitialize
    \/ EcosystemInitialize
    \/ SourceFacetPoll
    \/ CommitAndPush
    \/ ApiFacetPoll
    \/ ApiFacetResponse
    \/ LoadOrCreate
    \/ StateStoreCreate
    \/ CacheSet

Spec == Init /\ [][Next]_vars

(***************************************************************************)
(* URLs.                                                                   *)
(***************************************************************************)
\* url::Url::parse: an absolute URL needs a scheme; an https URL a host; a
\* URL without authority (mailto:) has no host and no path segments.  The
\* path of an https URL without one is "/".
UrlParse(value) ==
    IF value = <<>> \/ Head(value) \notin {"https://", "mailto:"}
    THEN Err("relative URL without a base")
    ELSE IF Head(value) = "mailto:"
         THEN Ok([host |-> None, base |-> FALSE, path |-> Tail(value)])
    ELSE IF Len(value) < 2 \/ value[2] = "/" THEN Err("empty host")
    ELSE Ok([host |-> Some(value[2]), base |-> TRUE,
             path |-> IF Len(value) = 2 THEN << "/" >>
                      ELSE SubSeq(value, 3, Len(value))])

\* Url::path_segments().map_or(Vec::new(), collect): the path after its
\* leading '/' split on '/'; nothing for a URL that cannot be a base.
PathSegments(u) == IF u.base THEN Split(Tail(u.path), << "/" >>) ELSE <<>>

\* InitializedGithubRepo as RepoService::get and TryFrom build it: the owner
\* always tagged GithubUser::User.
UserRepo(organization, name) ==
    [kind |-> "Github", name |-> name,
     organization |-> [kind |-> "User", name |-> organization]]

\* TryFrom<String> for InitializedRepo
InitializedRepoTryFrom(value) ==
    LET parts == UrlParse(value)
    IN  IF parts.kind = "Err" THEN parts
        ELSE LET path_segments == PathSegments(parts.value)
             IN  IF Len(path_segments) # 2 THEN Err("Invalid repo URL")
                 ELSE IF parts.value.host = Some("github.com")
                      THEN Ok(UserRepo(Concat(path_segments[1]),
                                       Concat(path_segments[2])))
                      ELSE Err("Unsupported repo host")

\* Variant of RepoGetTarget that takes every host for github.com.
RepoGetTarget_AnyHost(repo_url) ==
    LET parsed_url == UrlParse(repo_url)
    IN  IF parsed_url.kind = "Err" THEN parsed_url
        ELSE IF parsed_url.value.host # None
             THEN LET parts == Split(parsed_url.value.path, << "/" >>)
                  IN  IF Len(parts) < 3 THEN [kind |-> "Panic"]
                      ELSE Ok([organization |-> Concat(parts[2]),
                               name |-> Concat(parts[3])])
        ELSE Err("Invalid repo URL")

\* LocalRepoService::get up to its forge request: the error it returns, a
\* panic (parts[1] / parts[2] index a Vec that is too short), or the owner
\* and name it asks the forge for.
RepoGetTarget(repo_url) ==
    LET parsed_url == UrlParse(repo_url)
    IN  IF parsed_url.kind = "Err" THEN parsed_url
        ELSE IF parsed_url.value.host = Some("github.com")
             THEN LET parts == Split(parsed_url.value.path, << "/" >>)
                  IN  IF Len(parts) < 3 THEN [kind |-> "Panic"]
                      ELSE Ok([organization |-> Concat(parts[2]),
                               name |-> Concat(parts[3])])
        ELSE IF parsed_url.value.host # None THEN Err("Unsupported repo host")
        ELSE Err("Invalid repo URL")

(***************************************************************************)
(* Read side: ProjectService::get and get_facet_with_content, run against  *)
(* the forge as a create left it.                                          *)
(***************************************************************************)
\* The repository the forge holds (at most the one this run created).
ForgeHasRepo(organization, name) ==
    /\ forge.exists
    /\ repo # None
    /\ organization = repo.organization.name
    /\ name = repo.name

\* Outcomes of fetch_file_content(repo, path): the request fails on its way,
\* or the forge answers with the decoded content of the file on the pushed
\* branch, or with an error when it has no such repo or file.
FetchFileContent(r, path) ==
    { Err("request failed") }
    \cup IF ForgeHasRepo(r.organization.name, r.name) /\ path \in DOMAIN forge.files
         THEN { Ok(forge.files[path]) } ELSE { Err("not found") }

\* Path::new(&sf.path).join(&sf.name), then strip_prefix("./").unwrap_or:
\* a leading "." component is removed.
StrippedPath(sf) ==
    LET path == sf.path \o << sf.name >>
    IN  IF Head(path) = "." THEN Tail(path) ELSE path

\* The operation returns r.
Return(r) == [rd EXCEPT !.pc = "returned", !.result = r]

\* The fetch futures get_facet_with_content builds, one per SourceFile.
NewFetches(source_files) ==
    [i \in DOMAIN source_files |->
        [sf |-> source_files[i], status |-> "idle", content |-> None]]

\* Variant of CollectContent that gives up the files whose fetch failed and
\* returns the rest.
CollectContent_Partial(facet, fs) ==
    LET got == { i \in DOMAIN fs : fs[i].status = "ok" }
    IN  Ok([kind |-> "SourceBundle", facet_type |-> facet.facet_type,
            source_files |-> None,
            source_files_content |->
                Some([sf \in { fs[i].sf : i \in got } |->
                        fs[CHOOSE i \in got : fs[i].sf = sf].content])])

\* Variant of CollectContent that hands the manifest's source_files back
\* next to the content.
CollectContent_KeepFiles(facet, fs) ==
    IF \E i \in DOMAIN fs : fs[i].status = "err" THEN Err("fetch failed")
    ELSE Ok([kind |-> "SourceBundle", facet_type |-> facet.facet_type,
             source_files |-> facet.source_files,
             source_files_content |->
                 Some([sf \in { fs[i].sf : i \in DOMAIN fs } |->
                         fs[CHOOSE i \in DOMAIN fs : fs[i].sf = sf].content])])

\* join_all(...).into_iter().collect::<Result<Vec<_>, _>>()?, then the
\* HashMap<SourceFile, String> and the facet returned.
CollectContent(facet, fs) ==
    IF \E i \in DOMAIN fs : fs[i].status = "err" THEN Err("fetch failed")
    ELSE Ok([kind |-> "SourceBundle", facet_type |-> facet.facet_type,
             source_files |-> None,
             source_files_content |->
                 Some([sf \in { fs[i].sf : i \in DOMAIN fs } |->
                         fs[CHOOSE i \in DOMAIN fs : fs[i].sf = sf].content])])

\* Variant of LookupFacet that answers an unknown key with an empty facet.
LookupFacet_Lenient(project) ==
    IF rd.key \notin DOMAIN project.facets
    THEN Return(Ok([kind |-> "APIBundle", facet_type |-> "Other", apis |-> <<>>]))
    ELSE LET facet == project.facets[rd.key]
         IN  IF facet.kind = "APIBundle" THEN Return(Ok(facet))
             ELSE [rd EXCEPT !.pc = "fetch_files",
                             !.fetches = NewFetches(facet.source_files.value)]

\* get_facet_with_content after get returned the project: look the key up
\* and either return or start the file fetches.
LookupFacet(project) ==
    IF rd.key \notin DOMAIN project.facets
    THEN Return(Err("Facet not found"))
    ELSE LET facet == project.facets[rd.key]
         IN  IF facet.kind = "APIBundle" THEN Return(Ok(facet))
             ELSE IF facet.source_files = None
                  THEN Return(Err("No source files found"))
             ELSE IF facet.source_files.value = <<>>
                  THEN Return(CollectContent(facet, <<>>))
             ELSE [rd EXCEPT !.pc = "fetch_files",
                             !.fetches = NewFetches(facet.source_files.value)]

\* Most read operations one session issues.
MaxGets == 2

\* A URL of another forge, one without a name, one with an extra segment,
\* one with a trailing slash, one without a scheme, one without a host.
OtherUrls ==
    { << "https://", "gitlab.com", "/", "alice", "/", "demo" >>,
      << "https://", "gitlab.com", "/", "alice" >>,
      << "https://", "github.com", "/", "alice" >>,
      << "https://", "github.com" >>,
      << "https://", "github.com", "/", "alice", "/", "demo", "/", "tree" >>,
      << "https://", "github.com", "/", "alice", "/", "demo", "/" >>,
      << "github.com", "/", "alice", "/", "demo" >>,
      << "mailto:", "alice" >> }

\* Keys asked for: facets of one and of three files, an API facet, a type
\* the default plan does not have, a name.
RequestKeys ==
    { TypeKey("Readme"), TypeKey("SLSABuild"), TypeKey("BranchProtection"),
      TypeKey("Fuzzing"), NameKey(<< "README.md" >>) }

Request(op, url, key, n, prev) ==
    [pc |-> "repo_get", op |-> op, url |-> url, key |-> key, n |-> n,
     prev |-> prev, log |-> <<>>, repo |-> None, project |-> None,
     fetches |-> <<>>, result |-> None]

\* The user asks for the project just created, through the project service
\* (get) or through the reference cache (cache_get), for one of its facets
\* with content, or for a project at another URL; a get that returned may
\* be repeated.
GetRequest ==
    /\ pc = "created"
    /\ \/ /\ rd.pc = "idle"
          /\ \/ \E u \in OtherUrls \cup { full_url(result.project.repo) } :
                   \/ rd' = Request("get", u, None, 1, None)
                   \/ rd' = [Request("cache_get", u, None, 1, None)
                                EXCEPT !.pc = "try_from"]
             \/ \E k \in RequestKeys :
                   rd' = Request("get_facet_with_content",
                                 full_url(result.project.repo), k, 1, None)
       \/ /\ rd.pc = "returned"
          /\ rd.op = "get"
          /\ rd.url = full_url(result.project.repo)
          /\ rd.n < MaxGets
          /\ rd' = Request("get", rd.url, None, rd.n + 1, rd.result)
    /\ UNCHANGED <<call, impl, params, pc, log, wc, disk, git, forge, repo, source,
                   ecosystem, tasks, srcFacets, apiFacets, result, cache, cacheFile>>

\* InMemoryProjectReferenceCache::get up to its fetch of .skootrs: the repo
\* comes from the URL alone, without a forge request.
CacheGet ==
    /\ rd.pc = "try_from"
    /\ LET r == InitializedRepoTryFrom(rd.url)
       IN  rd' = IF r.kind = "Err" THEN Return(r)
                 ELSE [rd EXCEPT !.pc = "fetch_manifest", !.repo = r.value]
    /\ UNCHANGED <<call, impl, params, pc, log, wc, disk, git, forge, repo, source,
                   ecosystem, tasks, srcFacets, apiFacets, result, cache, cacheFile>>

\* LocalRepoService::get
RepoGet ==
    /\ rd.pc = "repo_get"
    /\ LET target == RepoGetTarget(rd.url)
       IN  CASE target.kind = "Err" -> rd' = Return(target)
             [] target.kind = "Panic" -> rd' = [rd EXCEPT !.pc = "panicked"]
             [] OTHER ->
                  \E exists \in BOOLEAN :
                    /\ exists => ForgeHasRepo(target.value.organization, target.value.name)
                    /\ rd' = [(IF exists
                               THEN [rd EXCEPT !.pc = "fetch_manifest",
                                               !.repo = UserRepo(target.value.organization,
                                                                 target.value.name)]
                               ELSE Return(Err("Repo does not exist")))
                              EXCEPT !.log = Append(rd.log,
                                  Ev("forge", "get_repo", << target.value.organization,
                                                             target.value.name >>))]
    /\ UNCHANGED <<call, impl, params, pc, log, wc, disk, git, forge, repo, source,
                   ecosystem, tasks, srcFacets, apiFacets, result, cache, cacheFile>>

\* ProjectService::get and the cache's get from the fetch of .skootrs on:
\* deserialize and return the project; get_facet_with_content goes on to
\* the lookup.
FetchManifest ==
    /\ rd.pc = "fetch_manifest"
    /\ \E skootrs_file \in FetchFileContent(rd.repo, << ManifestName >>) :
         LET fetched == [rd EXCEPT !.log = Append(rd.log,
                             Ev("forge", "get_content", << ManifestName >>))]
             initialized_project == IF skootrs_file.kind = "Ok"
                                    THEN Deserialize(skootrs_file.value)
                                    ELSE skootrs_file
         IN  rd' = [(IF initialized_project.kind = "Err" \/ rd.op \in {"get", "cache_get"}
                     THEN Return(initialized_project)
                     ELSE LookupFacet(initialized_project.value))
                    EXCEPT !.log = fetched.log,
                           !.project = IF initialized_project.kind = "Ok"
                                       THEN initialized_project.value ELSE None]
    /\ UNCHANGED <<call, impl, params, pc, log, wc, disk, git, forge, repo, source,
                   ecosystem, tasks, srcFacets, apiFacets, result, cache, cacheFile>>

\* join_all polls the next fetch future: its request goes out.
FetchPoll ==
    /\ rd.pc = "fetch_files"
    /\ HasIdle(rd.fetches)
    /\ LET i == NextIdle(rd.fetches)
       IN  rd' = [rd EXCEPT !.fetches[i].status = "pending",
                            !.log = Append(rd.log,
                                Ev("forge", "get_content",
                                   StrippedPath(rd.fetches[i].sf)))]
    /\ UNCHANGED <<call, impl, params, pc, log, wc, disk, git, forge, repo, source,
                   ecosystem, tasks, srcFacets, apiFacets, result, cache, cacheFile>>

\* The response of one fetch in flight arrives; with the last one the join
\* completes and get_facet_with_content returns.
FetchResponse ==
    /\ rd.pc = "fetch_files"
    /\ ~HasIdle(rd.fetches)
    /\ \E i \in DOMAIN rd.fetches :
         /\ rd.fetches[i].status = "pending"
         /\ \E content \in FetchFileContent(rd.project.repo,
                                            StrippedPath(rd.fetches[i].sf)) :
              LET fs == [rd.fetches EXCEPT
                            ![i].status = IF content.kind = "Ok" THEN "ok" ELSE "err",
                            ![i].content = IF content.kind = "Ok"
                                           THEN content.value ELSE None]
              IN  rd' = IF \E j \in DOMAIN fs : fs[j].status = "pending"
                        THEN [rd EXCEPT !.fetches = fs]
                        ELSE [Return(CollectContent(rd.project.facets[rd.key], fs))
                              EXCEPT !.fetches = fs]
    /\ UNCHANGED <<call, impl, params, pc, log, wc, disk, git, forge, repo, source,
                   ecosystem, tasks, srcFacets, apiFacets, result, cache, cacheFile>>

\* A create of a Go project by the binary, then reads of what it left.
GetInit ==
    /\ Init
    /\ impl = "Local"
    /\ params.ecosystem = "Go"
    /\ params.name = "demo"
    /\ params.eco_key = "demo"
    /\ wc = "absent"
    /\ cacheFile = None

GetNext ==
    \/ RepoInitialize
    \/ SourceInitialize
    \/ EcosystemInitialize
    \/ SourceFacetPoll
    \/ CommitAndPush
    \/ ApiFacetPoll
    \/ ApiFacetResponse
    \/ LoadOrCreate
    \/ StateStoreCreate
    \/ CacheSet
    \/ GetRequest
    \/ CacheGet
    \/ RepoGet
    \/ FetchManifest
    \/ FetchPoll
    \/ FetchResponse

GetSpec == GetInit /\ [][GetNext]_vars

(***************************************************************************)
(* Properties of initialize.                                               *)
(***************************************************************************)
StepOrder == << "repo", "source", "ecosystem", "source_facets", "commit", "api_facets" >>

Steps == { StepOrder[i] : i \in DOMAIN StepOrder }

\* The start / return entries of the pipeline steps, in the order logged.
StepEvents ==
    SelectSeq(log, LAMBDA e : e.kind \in {"start", "ok", "err"} /\ e.what \in Steps)

SourcePlanTypes ==
    { generate_default_source_bundle_facet_params[i].facet_type :
        i \in DOMAIN generate_default_source_bundle_facet_params }

ApiPlanTypes ==
    { generate_default_api_bundle[i].facet_type : i \in DOMAIN generate_default_api_bundle }

\* The pipeline step an inner operation of initialize belongs to.
OwnerStep(e) ==
    CASE e.kind = "git" /\ e.what = "clone" -> "source"
      [] e.kind = "git" -> "commit"
      [] e.kind \in {"write", "hash"} -> "source_facets"
      [] e.kind \in {"poll", "panic"} /\ e.what \in SourcePlanTypes -> "source_facets"
      [] OTHER -> "api_facets"

\* Index in the log of the return of initialize (0 while it is running).
ReturnIndex ==
    IF \E i \in DOMAIN log : log[i].kind \in {"ok", "err"} /\ log[i].what = "api_facets"
    THEN CHOOSE i \in DOMAIN log :
             log[i].kind \in {"ok", "err"} /\ log[i].what = "api_facets"
    ELSE 0

\* C1: the steps of initialize run in the order repo, source, ecosystem,
\* source-bundle facets, commit-and-push, api-bundle facets; a step starts
\* only when the step before it has returned Ok, and every operation of a
\* step happens between that step's start and its return (no two steps
\* overlap).
C1_StrictStepOrder ==
    LET se == StepEvents
        ret == ReturnIndex
    IN  /\ \A i \in DOMAIN se :
             IF i % 2 = 1
             THEN /\ se[i].kind = "start"
                  /\ (i + 1) \div 2 \in DOMAIN StepOrder
                  /\ se[i].what = StepOrder[(i + 1) \div 2]
                  /\ i > 1 => se[i - 1].kind = "ok"
             ELSE /\ se[i].kind \in {"ok", "err"}
                  /\ se[i].what = StepOrder[i \div 2]
        /\ \A j \in DOMAIN log :
             (log[j].kind \notin {"start", "ok", "err"} /\ (ret = 0 \/ j < ret))
             => \E i \in 1..(j - 1) :
                  /\ log[i] = Ev("start", OwnerStep(log[j]), <<>>)
                  /\ \A k \in (i + 1)..(j - 1) :
                       ~(log[k].kind \in {"start", "ok", "err"} /\ log[k].what \in Steps)

\* A run in which all six steps ran and the last one has started after the
\* commit returned.
C1_Witness ==
    /\ Len(StepEvents) = 12
    /\ StepEvents[12] = Ev("ok", "api_facets", <<>>)
    /\ impl = "Local"

\* C4: commit_and_push_changes returns Ok only if git add, git commit and
\* git push each succeeded.
C4_CommitAndPushOkOnlyIfAllSucceeded ==
    \A i \in DOMAIN log :
      (log[i] = Ev("ok", "commit", <<>>) /\ impl = "Local")
      => /\ i > 4
         /\ log[i - 3] = Ev("git", "add", <<"exit_ok">>)
         /\ log[i - 2] = Ev("git", "commit", <<"exit_ok">>)
         /\ log[i - 1] = Ev("git", "push", <<"exit_ok">>)

\* C5: an InitializedSource returned by Source.initialize has the path
\* parent_path/<repo name> and that directory is a working copy of the repo;
\* a failed clone gives an error instead.
C5_SourceIsWorkingCopy ==
    (impl = "Local" /\ source # None)
    => /\ source.path = << params.parent_path, params.repo_name >>
       /\ wc = "clone"
       /\ Ev("git", "clone", <<"exit_ok">>) \in { log[i] : i \in DOMAIN log }

InitialCommitPushed ==
    \E k \in DOMAIN forge.commits : forge.commits[k] = InitialCommitMessage

\* C2: commit_and_push_changes("Initialized project") starts only after every
\* file write of every source-bundle facet of the plan has completed, and no
\* API-bundle forge call is issued before the initial commit has been pushed.
C2_CommitIsBarrier ==
    /\ \A i \in DOMAIN log :
         log[i] = Ev("start", "commit", <<>>)
         => /\ \A j \in DOMAIN log :
                 (log[j].kind = "write" /\ log[j].what \in SourcePlanTypes) => j < i
            /\ impl = "Local" =>
                 \A t \in SourcePlanTypes :
                   \A f \in DOMAIN generate_content(t) :
                     \E j \in 1..(i - 1) :
                       log[j] = Ev("write", t, Resolve(generate_content(t)[f].path,
                                                       generate_content(t)[f].name))
    /\ (\E j \in DOMAIN log : log[j].kind = "put") => InitialCommitPushed

\* C3: when a step of initialize returns an error, initialize returns that
\* error, nothing further is started, and no InitializedProject is produced.
C3_StopsAtFirstError ==
    LET se == StepEvents
    IN  /\ \A i \in DOMAIN log :
             (log[i].kind = "err" /\ log[i].what \in Steps)
             => /\ i = Len(log)
                /\ pc = "failed"
                /\ result = [kind |-> "Err", step |-> log[i].what]
        /\ result.kind = "Ok" => \A i \in DOMAIN se : se[i].kind # "err"
        /\ pc = "failed" => result.kind = "Err"

\* A run that failed in the middle of the pipeline.
C3_Witness ==
    /\ pc = "failed"
    /\ result = [kind |-> "Err", step |-> "ecosystem"]
    /\ impl = "Local"
    /\ forge.exists

AllOk(ts) == \A i \in DOMAIN ts : ts[i].status = "ok"

AnyErr(ts) == \E i \in DOMAIN ts : ts[i].status = "err"

\* The join's Ok value for the plan: one facet per entry, in plan order.
JoinedInPlanOrder(fs, plan) ==
    /\ fs # None
    /\ AllOk(tasks)
    /\ Len(fs) = Len(plan)
    /\ fs = [i \in DOMAIN tasks |-> tasks[i].facet]
    /\ \A i \in DOMAIN fs :
         /\ fs[i] # None
         /\ fs[i].kind = plan[i].variant
         /\ impl = "Local" => fs[i].facet_type = plan[i].facet_type

\* C6: initialize_all returns Ok, with one initialized facet per plan entry
\* in plan order, exactly when every facet initialization returned Ok; when
\* one returned Err it returns Err and no list.
C6_InitializeAllJoin ==
    /\ pc = "source_facets" => ~AnyErr(tasks) /\ ~AllOk(tasks) /\ srcFacets = None
    /\ pc = "commit" =>
         JoinedInPlanOrder(srcFacets, generate_default_source_bundle_facet_params)
    /\ result = [kind |-> "Err", step |-> "source_facets"]
         => AnyErr(tasks) /\ srcFacets = None
    /\ pc = "api_facets" => ~AnyErr(tasks) /\ ~AllOk(tasks) /\ apiFacets = None
    /\ result.kind = "Ok" => JoinedInPlanOrder(apiFacets, generate_default_api_bundle)
    /\ result = [kind |-> "Err", step |-> "api_facets"]
         => AnyErr(tasks) /\ apiFacets = None

\* A join that failed while a peer had already succeeded.
C6_Witness ==
    /\ result = [kind |-> "Err", step |-> "source_facets"]
    /\ \E i \in DOMAIN tasks : tasks[i].status = "ok"
    /\ \E i \in DOMAIN tasks : tasks[i].status = "idle"
    /\ impl = "Local"

TypesOf(plan) == [i \in DOMAIN plan |-> plan[i].facet_type]

\* The facet futures polled so far, in order.
Polled == SelectSeq(log, LAMBDA e : e.kind = "poll")

\* C7: the default plan is the source-bundle sequence Readme .. DefaultSourceCode
\* followed by the API-bundle sequence BranchProtection, VulnerabilityReporting;
\* in generate_default, and in the order initialize applies the two plans,
\* every source-bundle facet precedes every API-bundle facet.
C7_DefaultPlanOrder ==
    LET spec_source == << "Readme", "License", "Gitignore", "SecurityPolicy",
                          "SecurityInsights", "SLSABuild", "DependencyUpdateTool",
                          "Scorecard", "SAST", "DefaultSourceCode" >>
        spec_api == << "BranchProtection", "VulnerabilityReporting" >>
        polled == Polled
    IN  /\ TypesOf(generate_default_source_bundle_facet_params) = spec_source
        /\ TypesOf(generate_default_api_bundle) = spec_api
        /\ TypesOf(generate_default) = spec_source \o spec_api
        /\ \A i, j \in DOMAIN generate_default :
             (generate_default[i].variant = "SourceBundle"
              /\ generate_default[j].variant = "APIBundle") => i < j
        /\ \A i \in DOMAIN generate_default :
             generate_default[i].variant =
               IF generate_default[i].facet_type \in { spec_api[k] : k \in DOMAIN spec_api }
               THEN "APIBundle" ELSE "SourceBundle"
        /\ Len(polled) <= Len(spec_source \o spec_api)
        /\ \A i \in DOMAIN polled : polled[i].what = (spec_source \o spec_api)[i]

\* Every facet of both plans has been applied.
C7_Witness == Len(Polled) = 12 /\ impl = "Local"

\* C8: in an InitializedProject returned by initialize every facet-map key
\* is ByType(t) for the facet_type t of the facet stored under it, and the
\* number of entries is the number of distinct facet types among the facets
\* the two initialize_all calls returned.
C8_FacetMapKeyedByType ==
    result.kind = "Ok" =>
      LET fm == result.project.facets
          returned == srcFacets \o apiFacets
      IN  /\ \A k \in DOMAIN fm : k = [kind |-> "Type", value |-> fm[k].facet_type]
          /\ \A k \in DOMAIN fm : \E i \in DOMAIN returned : fm[k] = returned[i]
          /\ Cardinality(DOMAIN fm)
               = Cardinality({ returned[i].facet_type : i \in DOMAIN returned })

\* Facets of the same type collapsed: twelve facets returned, two entries.
C8_Witness ==
    /\ result.kind = "Ok"
    /\ Len(srcFacets \o apiFacets) = 12
    /\ Cardinality(DOMAIN result.project.facets) = 2

ManifestOnDisk == disk[Resolve(ManifestPath, ManifestName)]

GoCreateSucceeded ==
    /\ pc = "created"
    /\ impl = "Local"
    /\ params.ecosystem = "Go"

\* C9 as stated: after a successful create of a Go project with the default
\* plan, the project serialized in .skootrs has 10 facet-map entries.
C9_TenEntries ==
    GoCreateSucceeded => Cardinality(DOMAIN ManifestOnDisk.facets) = 10

\* C9 amended: after a successful create of a Go project with the default
\* plan, the project serialized in .skootrs has 12 facet-map entries keyed by
\* type: one per source-bundle facet type and one per API-bundle facet type
\* of the default plan.
C9_TwelveEntries ==
    GoCreateSucceeded =>
      /\ Cardinality(DOMAIN ManifestOnDisk.facets) = 12
      /\ DOMAIN ManifestOnDisk.facets
           = { FacetMapKeyToString(TypeKey(t)) : t \in SourcePlanTypes \cup ApiPlanTypes }

C9_Witness == GoCreateSucceeded /\ ManifestOnDisk.kind = "manifest"

\* C10: every SourceFile recorded in a SourceBundleFacet returned by facet
\* initialization was hashed after it was written, with no write to the same
\* file in between, and its hash is the hash of the bytes this facet wrote
\* for it.
C10_HashOfWrittenBytes ==
    LET returned ==
            { tasks[i].facet : i \in { j \in DOMAIN tasks :
                                         /\ tasks[j].status = "ok"
                                         /\ tasks[j].variant = "SourceBundle" } }
            \cup (IF srcFacets = None THEN {}
                  ELSE { srcFacets[i] : i \in DOMAIN srcFacets })
    IN  impl = "Local" =>
          \A facet \in returned :
            LET t == facet.facet_type
                sfs == facet.source_files.value
            IN  /\ Len(sfs) = Len(generate_content(t))
                /\ \A f \in DOMAIN sfs :
                     LET rp == Resolve(sfs[f].path, sfs[f].name)
                     IN  /\ sfs[f].name = generate_content(t)[f].name
                         /\ sfs[f].path = generate_content(t)[f].path
                         /\ sfs[f].hash = Sha256Hex(Rendered(t, sfs[f].name, params.name))
                         /\ \E w, h \in DOMAIN log :
                              /\ w < h
                              /\ log[w] = Ev("write", t, rp)
                              /\ log[h] = Ev("hash", t, rp)
                              /\ \A x \in (w + 1)..(h - 1) :
                                   ~(log[x].kind = "write" /\ log[x].arg = rp)

\* The three-file SLSABuild facet was applied in a directory that held a
\* README.md before the run.
C10_Witness ==
    /\ impl = "Local"
    /\ pc = "source_facets"
    /\ Ev("git", "clone", <<"exit_fail">>) \in { log[i] : i \in DOMAIN log }
    /\ \E i \in DOMAIN tasks :
         /\ tasks[i].facet_type = "SLSABuild"
         /\ tasks[i].status = "ok"
         /\ Len(tasks[i].facet.source_files.value) = 3

(***************************************************************************)
(* Properties of the read side.                                            *)
(***************************************************************************)
\* The SourceBundleFacets facet initialization has returned so far, and
\* those of the project initialize returned.
InitializedSourceBundles ==
    { tasks[i].facet : i \in { j \in DOMAIN tasks :
                                 /\ tasks[j].status = "ok"
                                 /\ tasks[j].variant = "SourceBundle" } }
    \cup (IF srcFacets = None THEN {}
          ELSE { srcFacets[i] : i \in DOMAIN srcFacets })
    \cup (IF result.kind # "Ok" THEN {}
          ELSE { f \in { result.project.facets[k] : k \in DOMAIN result.project.facets } :
                   f.kind = "SourceBundle" })

\* get_facet_with_content has returned a facet.
FacetReturned ==
    /\ rd.pc = "returned"
    /\ rd.op = "get_facet_with_content"
    /\ rd.result.kind = "Ok"

\* C11: every SourceBundleFacet that facet initialization returns has
\* source_files populated and source_files_content none; every one that
\* get_facet_with_content returns has source_files none and
\* source_files_content populated.
C11_ExactlyOnePopulated ==
    /\ \A f \in InitializedSourceBundles :
         f.source_files.kind = "Some" /\ f.source_files_content = None
    /\ (FacetReturned /\ rd.result.value.kind = "SourceBundle")
       => /\ rd.result.value.source_files = None
          /\ rd.result.value.source_files_content.kind = "Some"

\* The three-file SLSABuild facet was initialized by this run and has been
\* returned with its content.
C11_Witness ==
    /\ FacetReturned
    /\ rd.key = TypeKey("SLSABuild")
    /\ rd.result.value.kind = "SourceBundle"
    /\ \E f \in InitializedSourceBundles : f.facet_type = "SLSABuild"

\* The forge requests a read operation has made, in order.
ForgeRequests == SelectSeq(rd.log, LAMBDA e : e.kind = "forge")

\* get_facet_with_content has loaded the manifest and its key is not among
\* the manifest's facets.
KeyAbsent ==
    /\ rd.pc # "idle"
    /\ rd.op = "get_facet_with_content"
    /\ rd.project # None
    /\ rd.key \notin DOMAIN rd.project.facets

\* C12: get_facet_with_content with a key that is not in the manifest
\* returns the error "Facet not found" once the manifest is loaded, and its
\* only content request to the forge is the one for the manifest.
C12_AbsentKeyNotFound ==
    KeyAbsent =>
      /\ rd.pc = "returned"
      /\ rd.result = Err("Facet not found")
      /\ \A i \in DOMAIN ForgeRequests :
           ForgeRequests[i].what = "get_content"
           => ForgeRequests[i].arg = << ManifestName >>
      /\ rd.fetches = <<>>

\* A key the manifest lacks (a type outside the default plan, or a name) was
\* asked of a manifest that holds the twelve default facets.
C12_Witness ==
    /\ KeyAbsent
    /\ rd.key \in { TypeKey("Fuzzing"), NameKey(<< "README.md" >>) }
    /\ Cardinality(DOMAIN rd.project.facets) = 12

\* The SourceFiles of the facet get_facet_with_content was asked for, as the
\* manifest lists them.
RequestedSourceFiles == rd.project.facets[rd.key].source_files.value

\* get_facet_with_content has reached its file fetches.
FetchingFiles ==
    /\ rd.pc \in {"fetch_files", "returned"}
    /\ rd.op = "get_facet_with_content"
    /\ rd.fetches # <<>>

\* C13: for a SourceBundleFacet, get_facet_with_content asks the forge for
\* every SourceFile of the manifest at path/name without a leading "./";
\* when it returns a facet, the content map has exactly one entry per
\* SourceFile, each the content the forge holds at that path; when a fetch
\* failed it returns an error and no map.
C13_ContentOfEveryFile ==
    FetchingFiles =>
      LET sfs == RequestedSourceFiles
          fs == rd.fetches
      IN  /\ Len(fs) = Len(sfs)
          /\ \A i \in DOMAIN fs :
               /\ fs[i].sf = sfs[i]
               /\ fs[i].status # "idle"
                  => Ev("forge", "get_content", Resolve(sfs[i].path, sfs[i].name))
                       \in { rd.log[j] : j \in DOMAIN rd.log }
          /\ rd.pc = "returned" =>
               IF \E i \in DOMAIN fs : fs[i].status = "err"
               THEN rd.result.kind = "Err"
               ELSE /\ rd.result.kind = "Ok"
                    /\ LET map == rd.result.value.source_files_content.value
                       IN  /\ DOMAIN map = { sfs[i] : i \in DOMAIN sfs }
                           /\ Cardinality(DOMAIN map) = Len(sfs)
                           /\ \A i \in DOMAIN sfs :
                                map[sfs[i]] =
                                  forge.files[Resolve(sfs[i].path, sfs[i].name)]

\* The three files of SLSABuild, which lie in different directories, were
\* fetched and returned.
C13_Witness ==
    /\ FetchingFiles
    /\ rd.pc = "returned"
    /\ Len(rd.fetches) = 3
    /\ rd.result.kind = "Ok"
    /\ rd.fetches[1].sf.path # rd.fetches[2].sf.path

\* A get of the URL of the project this run created has returned.
GetOfCreatedReturned ==
    /\ pc = "created"
    /\ rd.pc = "returned"
    /\ rd.op = "get"
    /\ rd.url = full_url(result.project.repo)

\* C14 as stated: for the project P that create produced, a get of
\* P.repo.full_url that the forge answered returns a project equal to P
\* (repo with its owner tag, ecosystem, source, facet map), and a repeated
\* get returns the same project.
C14_GetReturnsCreated ==
    (GetOfCreatedReturned
       /\ rd.result \notin { Err("request failed"), Err("Repo does not exist") })
    => /\ rd.result = Ok(result.project)
       /\ (rd.prev # None /\ rd.prev.kind = "Ok") => rd.result = rd.prev

\* What holds of get: it asks the forge for the repo, then for .skootrs,
\* in that order; a project it returns is the created one, owner tag
\* included, and equals the one an earlier get returned.
C14_ReturnedProjectIsCreated ==
    GetOfCreatedReturned =>
      /\ \A i \in DOMAIN ForgeRequests :
           ForgeRequests[i].what = IF i = 1 THEN "get_repo" ELSE "get_content"
      /\ Len(ForgeRequests) <= 2
      /\ rd.result.kind = "Ok" =>
           /\ Len(ForgeRequests) = 2
           /\ rd.result.value = result.project
           /\ rd.result.value.repo.organization.kind = params.owner_kind
           /\ (rd.prev # None /\ rd.prev.kind = "Ok") => rd.result = rd.prev

\* A second get of an Organization-owned project returned it again.
C14_Witness ==
    /\ GetOfCreatedReturned
    /\ rd.n = 2
    /\ rd.prev.kind = "Ok"
    /\ rd.result.kind = "Ok"
    /\ params.owner_kind = "Organization"

\* A get of rd.url, by the repo service or by the cache, is over.
GetOver == rd.pc \in {"returned", "panicked"} /\ rd.op \in {"get", "cache_get"}

\* The URL parses and names a host other than github.com.
OtherHost(url) ==
    /\ UrlParse(url).kind = "Ok"
    /\ UrlParse(url).value.host \notin { None, Some("github.com") }

\* C15 as stated: Repo.get and InitializedRepo::try_from on a URL whose host
\* is not github.com return the unsupported-host error and issue no forge
\* request.
C15_UnknownHostUnsupported ==
    (GetOver /\ OtherHost(rd.url))
    => /\ rd.pc = "returned"
       /\ rd.result = Err("Unsupported repo host")
       /\ ForgeRequests = <<>>

\* C15 amended: on a URL whose host is not github.com neither issues a forge
\* request; Repo.get returns the unsupported-host error whatever the path,
\* InitializedRepo::try_from returns it when the path has exactly two
\* segments and the invalid-URL error otherwise.
C15_UnknownHostRejected ==
    (GetOver /\ OtherHost(rd.url))
    => /\ rd.pc = "returned"
       /\ ForgeRequests = <<>>
       /\ rd.result =
            IF rd.op = "cache_get" /\ Len(PathSegments(UrlParse(rd.url).value)) # 2
            THEN Err("Invalid repo URL")
            ELSE Err("Unsupported repo host")

\* Repo.get of https://gitlab.com/alice/demo returned.
C15_Witness ==
    /\ GetOver
    /\ rd.op = "get"
    /\ rd.url = << "https://", "gitlab.com", "/", "alice", "/", "demo" >>
    /\ rd.result = Err("Unsupported repo host")

\* The URL parses, names github.com and has a path of other than two
\* segments.
NotOwnerAndName(url) ==
    /\ UrlParse(url).kind = "Ok"
    /\ UrlParse(url).value.host = Some("github.com")
    /\ Len(PathSegments(UrlParse(url).value)) # 2

\* C16 as stated: Repo.get of a github.com URL whose path has fewer or more
\* than two segments returns an error to the caller and issues no forge
\* request.
C16_PathIsOwnerAndName ==
    (GetOver /\ rd.op = "get" /\ NotOwnerAndName(rd.url))
    => /\ rd.pc = "returned"
       /\ rd.result.kind = "Err"
       /\ ForgeRequests = <<>>

\* Repo.get of a github.com URL without a name never returned: it panicked.
C16_ShortPathPanics ==
    /\ rd.pc = "panicked"
    /\ rd.op = "get"
    /\ rd.url = << "https://", "github.com", "/", "alice" >>

\* Repo.get of a github.com URL with a third segment asked the forge for
\* the repo its first two segments name, and get returned that project.
C16_LongPathAccepted ==
    /\ rd.pc = "returned"
    /\ rd.op = "get"
    /\ rd.url = << "https://", "github.com", "/", "alice", "/", "demo", "/", "tree" >>
    /\ rd.result.kind = "Ok"
    /\ ForgeRequests[1] = Ev("forge", "get_repo", << "alice", "demo" >>)

(***************************************************************************)
(* String encodings: FacetMapKey, SourceFile and InitializedRepo to their  *)
(* strings and back, applied to values of every shape.                     *)
(***************************************************************************)
\* Longest name of a FacetMapKey::Name, in tokens.
MaxLen == 3

\* Longest name and path of a SourceFile, in tokens.
MaxFieldLen == 2

\* Most conversions applied in a row to one value.
MaxSteps == 2

\* The texts of at most n tokens from an alphabet.
Texts(alphabet, n) == UNION { [1..k -> alphabet] : k \in 0..n }

\* Keys of every type and of names with and without ':' and ' ' in them.
FacetMapKeys ==
    { TypeKey(t) : t \in SupportedFacetType }
    \cup { NameKey(x) : x \in Texts({"x", ":", " "}, MaxLen) }

\* Strings handed to FacetMapKey::try_from: both tags, an unknown one, a
\* type in its own and in another spelling, a name, the separator's parts.
FacetMapKeyStrings ==
    Texts({"Type", "Name", "Kind", ":", " ", "Readme", "readme", "x"}, MaxLen + 1)

\* SourceFiles whose name and path hold any tokens, ':' among them.
SourceFiles ==
    [name : Texts({"a", ":"}, MaxFieldLen), path : Texts({"a", ":"}, MaxFieldLen),
     hash : { << "h" >> }]

\* Strings handed to SourceFile::try_from.
SourceFileStrings == Texts({"a", ":", "h"}, 2 * MaxFieldLen + 1)

\* Repos of users and of organizations, named as the forge names them.
InitializedRepos ==
    [kind : {"Github"}, name : {"demo", "my-app"},
     organization : [kind : OwnerKinds, name : {"alice", "acme"}]]

\* A value a conversion is about to be applied to, with the values it came
\* from.
Value(type, val) == [type |-> type, val |-> val, trail |-> <<>>]

Converted(type, val) ==
    [type |-> type, val |-> val, trail |-> Append(call.trail, call)]

\* What a TryFrom returned: the value, or the error.
TryConverted(type, r) ==
    IF r.kind = "Ok" THEN Converted(type, r.value) ELSE Converted("Err", r)

\* No project is being created or read: the conversions, the output
\* listing and the reference cache run on their own.
NoInitialize ==
    /\ impl = "Mock"
    /\ params = [name |-> "demo", repo_name |-> "demo", owner_kind |-> "User",
                 ecosystem |-> "Go", eco_key |-> "demo", parent_path |-> "/tmp"]
    /\ pc = "repo"
    /\ log = <<>>
    /\ wc = "absent"
    /\ disk = NoFiles
    /\ git = [index |-> NoFiles, head |-> NoFiles, commits |-> <<>>]
    /\ forge = [exists |-> FALSE, files |-> NoFiles, commits |-> <<>>,
                branch_protection |-> FALSE, vulnerability_reporting |-> FALSE]
    /\ repo = None
    /\ source = None
    /\ ecosystem = None
    /\ tasks = <<>>
    /\ srcFacets = None
    /\ apiFacets = None
    /\ result = None

NoProject ==
    /\ NoInitialize
    /\ cache = {}
    /\ cacheFile = None

CodecInit ==
    /\ call \in { Value("FacetMapKey", k) : k \in FacetMapKeys }
              \cup { Value("FacetMapKeyString", x) : x \in FacetMapKeyStrings }
              \cup { Value("SourceFile", f) : f \in SourceFiles }
              \cup { Value("SourceFileString", x) : x \in SourceFileStrings }
              \cup { Value("InitializedRepo", r) : r \in InitializedRepos }
              \cup { Value("RepoUrl", u) : u \in OtherUrls }
    /\ rd = Idle
    /\ NoProject

\* String::from(FacetMapKey)
FacetMapKeyInto ==
    /\ call.type = "FacetMapKey"
    /\ Len(call.trail) < MaxSteps
    /\ call' = Converted("FacetMapKeyString", FacetMapKeyToString(call.val))
    /\ UNCHANGED <<rd, impl, params, pc, log, wc, disk, git, forge, repo, source,
                   ecosystem, tasks, srcFacets, apiFacets, result, cache, cacheFile>>

\* FacetMapKey::try_from(String)
FacetMapKeyParse ==
    /\ call.type = "FacetMapKeyString"
    /\ Len(call.trail) < MaxSteps
    /\ call' = TryConverted("FacetMapKey", FacetMapKeyTryFrom(call.val))
    /\ UNCHANGED <<rd, impl, params, pc, log, wc, disk, git, forge, repo, source,
                   ecosystem, tasks, srcFacets, apiFacets, result, cache, cacheFile>>

\* String::from(SourceFile)
SourceFileInto ==
    /\ call.type = "SourceFile"
    /\ Len(call.trail) < MaxSteps
    /\ call' = Converted("SourceFileString", SourceFileToString(call.val))
    /\ UNCHANGED <<rd, impl, params, pc, log, wc, disk, git, forge, repo, source,
                   ecosystem, tasks, srcFacets, apiFacets, result, cache, cacheFile>>

\* SourceFile::try_from(String)
SourceFileParse ==
    /\ call.type = "SourceFileString"
    /\ Len(call.trail) < MaxSteps
    /\ call' = TryConverted("SourceFile", SourceFileTryFrom(call.val))
    /\ UNCHANGED <<rd, impl, params, pc, log, wc, disk, git, forge, repo, source,
                   ecosystem, tasks, srcFacets, apiFacets, result, cache, cacheFile>>

\* InitializedRepo::full_url
RepoFullUrl ==
    /\ call.type = "InitializedRepo"
    /\ Len(call.trail) < MaxSteps
    /\ call' = Converted("RepoUrl", full_url(call.val))
    /\ UNCHANGED <<rd, impl, params, pc, log, wc, disk, git, forge, repo, source,
                   ecosystem, tasks, srcFacets, apiFacets, result, cache, cacheFile>>

\* InitializedRepo::try_from(String)
RepoParse ==
    /\ call.type = "RepoUrl"
    /\ Len(call.trail) < MaxSteps
    /\ call' = TryConverted("InitializedRepo", InitializedRepoTryFrom(call.val))
    /\ UNCHANGED <<rd, impl, params, pc, log, wc, disk, git, forge, repo, source,
                   ecosystem, tasks, srcFacets, apiFacets, result, cache, cacheFile>>

CodecNext ==
    \/ FacetMapKeyInto
    \/ FacetMapKeyParse
    \/ SourceFileInto
    \/ SourceFileParse
    \/ RepoFullUrl
    \/ RepoParse

CodecSpec == CodecInit /\ [][CodecNext]_vars

\* The value the conversions started from, and whether n of them have been
\* applied to a value of the given type.
Start == IF call.trail = <<>> THEN call ELSE call.trail[1]

After(n, type) == Len(call.trail) = n /\ Start.type = type

(***************************************************************************)
(* Properties of the string encodings.                                     *)
(***************************************************************************)
\* TRUE when the text holds the separator sep somewhere.
Contains(s, sep) == \E i \in 1..Len(s) : StartsWith(SubSeq(s, i, Len(s)), sep)

\* C17 as stated: "Type: Readme" parses to the key of type Readme and
\* "Name: x" to the key of name x; a string that parses is written back as
\* itself; every key, of any type or of any name, is parsed back from its
\* string as itself.
C17_KeyRoundTrip ==
    /\ (After(1, "FacetMapKeyString") /\ Start.val = << "Type", ":", " ", "Readme" >>)
         => call.type = "FacetMapKey" /\ call.val = TypeKey("Readme")
    /\ (After(1, "FacetMapKeyString") /\ Start.val = << "Name", ":", " ", "x" >>)
         => call.type = "FacetMapKey" /\ call.val = NameKey(<< "x" >>)
    /\ After(2, "FacetMapKeyString") => Concat(call.val) = Concat(Start.val)
    /\ After(2, "FacetMapKey") => call.type = "FacetMapKey" /\ call.val = Start.val

\* What holds of the encoding: the two examples, the round trip from every
\* string that parses, and the round trip from every key of a type and from
\* every key whose name does not hold ": "; a name that holds it is
\* written to a string that does not parse.
C17_RoundTripWithoutSeparator ==
    /\ (After(1, "FacetMapKeyString") /\ Start.val = << "Type", ":", " ", "Readme" >>)
         => call.type = "FacetMapKey" /\ call.val = TypeKey("Readme")
    /\ (After(1, "FacetMapKeyString") /\ Start.val = << "Name", ":", " ", "x" >>)
         => call.type = "FacetMapKey" /\ call.val = NameKey(<< "x" >>)
    /\ After(2, "FacetMapKeyString") => Concat(call.val) = Concat(Start.val)
    /\ After(2, "FacetMapKey") =>
         IF Start.val.kind = "Name" /\ Contains(Start.val.value, << ":", " " >>)
         THEN call.type = "Err"
         ELSE call.type = "FacetMapKey" /\ call.val = Start.val

\* The key of a name without ": " in it, though with a ':', came back from
\* its string.
C17_Witness ==
    /\ After(2, "FacetMapKey")
    /\ Start.val = NameKey(<< "x", ":", "x" >>)
    /\ call.val = Start.val

\* The key named ": x" was written to "Name: : x", which did not parse.
C17_NameWithSeparatorLost ==
    /\ After(2, "FacetMapKey")
    /\ Start.val = NameKey(<< ":", " ", "x" >>)
    /\ call.type = "Err"

\* C18 as stated: every SourceFile, whatever its name and path, is parsed
\* back from its string "name:path:hash" as itself.
C18_SourceFileRoundTrip ==
    After(2, "SourceFile") => call.type = "SourceFile" /\ call.val = Start.val

\* What holds of the encoding: a SourceFile without ':' in its name and
\* path is parsed back as itself; with a ':' in either, its string does not
\* parse.
C18_RoundTripWithoutColon ==
    After(2, "SourceFile") =>
      IF Contains(Start.val.name, << ":" >>) \/ Contains(Start.val.path, << ":" >>)
      THEN call.type = "Err"
      ELSE call.type = "SourceFile" /\ call.val = Start.val

\* A SourceFile without ':' in its fields came back from its string.
C18_Witness ==
    /\ After(2, "SourceFile")
    /\ Start.val = [name |-> << "a" >>, path |-> << "a", "a" >>, hash |-> << "h" >>]
    /\ call.val = Start.val

\* The SourceFile named "a:" was written to "a::a:h", which did not parse.
C18_NameWithColonLost ==
    /\ After(2, "SourceFile")
    /\ Start.val.name = << "a", ":" >>
    /\ Start.val.path = << "a" >>
    /\ call.type = "Err"

\* C19: the full URL of a repo is its host URL, "/", the owner's name, "/"
\* and the repo's name; InitializedRepo::try_from of it succeeds and gives
\* a repo of the same host URL (the same forge) and the same full URL,
\* whether a user or an organization owns the repo.
C19_FullUrlRoundTrip ==
    /\ After(1, "InitializedRepo") =>
         Concat(call.val) = Concat(HostUrl) \o "/" \o Start.val.organization.name
                                \o "/" \o Start.val.name
    /\ After(2, "InitializedRepo") =>
         /\ call.type = "InitializedRepo"
         /\ call.val.kind = Start.val.kind
         /\ Concat(full_url(call.val)) = Concat(full_url(Start.val))

\* The URL of an organization's repo was parsed back to a repo.
C19_Witness ==
    /\ After(2, "InitializedRepo")
    /\ Start.val.organization.kind = "Organization"
    /\ call.type = "InitializedRepo"
    /\ call.val.name = Start.val.name

(***************************************************************************)
(* Outputs: OutputService::list against the assets of a release.           *)
(***************************************************************************)
\* Most assets of a release.
MaxAssets == 3

\* Asset names: an SPDX and a CycloneDX SBOM, an attestation, an archive, a
\* name that ends in ".spdx", and one with two markers.
AssetNames ==
    { << "app", ".", "spdx", ".", "json" >>,
      << "app", ".", "cdx", ".", "json" >>,
      << "app", ".", "intoto", ".", "jsonl" >>,
      << "app", ".", "tar", ".", "gz" >>,
      << "app", ".", "spdx" >>,
      << "app", ".", "intoto", ".", "cdx", ".", "json" >> }

\* The releases the forge may answer with: assets of distinct names, in the
\* forge's order.
Releases ==
    { [assets |-> names] :
        names \in { t \in Texts(AssetNames, MaxAssets) :
                      \A i, j \in DOMAIN t : t[i] = t[j] => i = j } }

\* Variant of get_type without the rule for CycloneDX names.
get_type_NoCdx(asset) ==
    IF Contains(asset, << ".", "spdx", "." >>) THEN [kind |-> "SBOM"]
    ELSE IF Contains(asset, << ".", "intoto", "." >>) THEN [kind |-> "InToto"]
    ELSE [kind |-> "Unknown", value |-> "Unknown"]

\* GithubReleaseHandler::get_type; an asset is given by its name.
get_type(asset) ==
    IF Contains(asset, << ".", "spdx", "." >>) THEN [kind |-> "SBOM"]
    ELSE IF Contains(asset, << ".", "cdx", "." >>) THEN [kind |-> "SBOM"]
    ELSE IF Contains(asset, << ".", "intoto", "." >>) THEN [kind |-> "InToto"]
    ELSE [kind |-> "Unknown", value |-> "Unknown"]

\* GithubReleaseHandler::get_labels
get_labels(asset) ==
    IF Contains(asset, << ".", "spdx", "." >>) THEN << "S2C2FAUD4" >>
    ELSE IF Contains(asset, << ".", "cdx", "." >>) THEN << "S2C2FAUD4" >>
    ELSE IF Contains(asset, << ".", "intoto", "." >>) THEN << "SLSABuildLevel3" >>
    ELSE <<>>

\* GithubReleaseHandler::outputs_list once the release is there: a
\* reference per asset, by iteration over release.assets.
outputs_list(release) ==
    [i \in DOMAIN release.assets |->
        [name |-> release.assets[i],
         output_type |-> get_type(release.assets[i]),
         labels |-> get_labels(release.assets[i])]]

OutputInit ==
    /\ call = None
    /\ rd = Idle
    /\ NoProject

\* LocalOutputService::list up to the forge request of get_release: by tag,
\* or the latest release.
OutputsListRequest ==
    /\ rd.pc = "idle"
    /\ \E tag \in { None, Some("v1") } :
         rd' = [pc |-> "get_release", op |-> "list", tag |-> tag,
                log |-> << Ev("forge", IF tag = None THEN "get_latest" ELSE "get_by_tag",
                              << "alice", "old" >>) >>,
                name |-> None, release |-> None, result |-> None]
    /\ UNCHANGED <<call, impl, params, pc, log, wc, disk, git, forge, repo, source,
                   ecosystem, tasks, srcFacets, apiFacets, result, cache, cacheFile>>

\* Names asked for: those of the assets, and one that only begins them.
OutputNames == AssetNames \cup { << "app" >> }

\* LocalOutputService::get up to the forge request of get_release.
OutputGetRequest ==
    /\ rd.pc = "idle"
    /\ \E tag \in { None, Some("v1") }, name \in OutputNames :
         rd' = [pc |-> "get_release", op |-> "get", tag |-> tag,
                log |-> << Ev("forge", IF tag = None THEN "get_latest" ELSE "get_by_tag",
                              << "alice", "old" >>) >>,
                name |-> name, release |-> None, result |-> None]
    /\ UNCHANGED <<call, impl, params, pc, log, wc, disk, git, forge, repo, source,
                   ecosystem, tasks, srcFacets, apiFacets, result, cache, cacheFile>>

\* Variant of find_asset that takes the first asset whose name begins with
\* the name asked for.
find_asset_Prefix(release, name) ==
    LET found == { i \in DOMAIN release.assets : StartsWith(release.assets[i], name) }
    IN  IF found = {} THEN None
        ELSE Some(release.assets[CHOOSE i \in found : \A j \in found : i <= j])

\* release.assets.iter().find(|a| a.name == params.name)
find_asset(release, name) ==
    LET found == { i \in DOMAIN release.assets : release.assets[i] = name }
    IN  IF found = {} THEN None
        ELSE Some(release.assets[CHOOSE i \in found : \A j \in found : i <= j])

\* The forge answers get_release, with a release or an error.  list
\* returns; get returns the error, or looks the asset up and either fails
\* or requests its browser_download_url.
GetRelease ==
    /\ rd.pc = "get_release"
    /\ \/ rd' = [rd EXCEPT !.pc = "returned", !.result = Err("octocrab")]
       \/ \E release \in Releases :
            LET got == [rd EXCEPT !.release = Some(release)]
                asset == find_asset(release, rd.name)
            IN  rd' = IF rd.op = "list"
                      THEN [got EXCEPT !.pc = "returned",
                                       !.result = Ok(outputs_list(release))]
                      ELSE IF asset = None
                      THEN [got EXCEPT !.pc = "returned",
                                       !.result = Err("Asset not found")]
                      ELSE [got EXCEPT !.pc = "download",
                                       !.log = Append(rd.log,
                                           Ev("http", "get", asset.value))]
    /\ UNCHANGED <<call, impl, params, pc, log, wc, disk, git, forge, repo, source,
                   ecosystem, tasks, srcFacets, apiFacets, result, cache, cacheFile>>

\* serde_json::to_string_pretty(&content) of the downloaded text: the text
\* as a JSON string literal.
JsonString(content) == [kind |-> "json_string", of |-> content]

\* The download answers: get returns the error, or the reference of the
\* asset with what was downloaded.
Download ==
    /\ rd.pc = "download"
    /\ LET asset == rd.log[Len(rd.log)].arg
       IN  \/ rd' = [rd EXCEPT !.pc = "returned", !.result = Err("reqwest")]
           \/ rd' = [rd EXCEPT !.pc = "returned",
                       !.result = Ok([reference |-> [name |-> asset,
                                                     output_type |-> get_type(asset),
                                                     labels |-> get_labels(asset)],
                                      output |-> JsonString([kind |-> "asset",
                                                             name |-> asset])])]
    /\ UNCHANGED <<call, impl, params, pc, log, wc, disk, git, forge, repo, source,
                   ecosystem, tasks, srcFacets, apiFacets, result, cache, cacheFile>>

OutputNext == OutputsListRequest \/ OutputGetRequest \/ GetRelease \/ Download

OutputSpec == OutputInit /\ [][OutputNext]_vars

\* list has returned the references of a release.
Listed == rd.pc = "returned" /\ rd.op = "list" /\ rd.result.kind = "Ok"

Downloads == SelectSeq(rd.log, LAMBDA e : e.kind = "http")

\* C21: get asks the forge for the release of the tag when one is given
\* and for the latest release otherwise; it downloads the asset whose name
\* equals the name asked for, and nothing else; when the release has no
\* asset of exactly that name it returns the not-found error and downloads
\* nothing.
C21_GetByExactName ==
    (rd.pc # "idle" /\ rd.op = "get") =>
      /\ rd.log[1] = Ev("forge", IF rd.tag = None THEN "get_latest" ELSE "get_by_tag",
                        << "alice", "old" >>)
      /\ Len(ForgeRequests) = 1
      /\ \A i \in DOMAIN Downloads : i = 1 /\ Downloads[i].arg = rd.name
      /\ rd.release # None =>
           IF \E i \in DOMAIN rd.release.value.assets :
                  rd.release.value.assets[i] = rd.name
           THEN /\ Len(Downloads) = 1
                /\ rd.pc = "returned" =>
                     \/ rd.result = Err("reqwest")
                     \/ /\ rd.result.kind = "Ok"
                        /\ rd.result.value.reference.name = rd.name
                        /\ rd.result.value.output.of.name = rd.name
           ELSE /\ Downloads = <<>>
                /\ rd.pc = "returned"
                /\ rd.result = Err("Asset not found")

\* The release of tag v1 held app.spdx.json before app.spdx; get of
\* app.spdx downloaded the second.
C21_Witness ==
    /\ rd.pc = "returned"
    /\ rd.op = "get"
    /\ rd.tag = Some("v1")
    /\ rd.name = << "app", ".", "spdx" >>
    /\ rd.release # None
    /\ rd.release.value.assets = << << "app", ".", "spdx", ".", "json" >>,
                                    << "app", ".", "spdx" >> >>
    /\ rd.result.kind = "Ok"

\* No asset was named app: get returned not-found without a download.
C21_NotFound ==
    /\ rd.pc = "returned"
    /\ rd.op = "get"
    /\ rd.name = << "app" >>
    /\ rd.release # None
    /\ rd.result = Err("Asset not found")
    /\ Downloads = <<>>

(***************************************************************************)
(* Properties of the reference cache in create.                            *)
(***************************************************************************)
\* C23 as stated: load_or_create leaves a cache file that is there as it is
\* (and loads it); it writes a file only when there is none.
C23_ExistingFileUntouched ==
    [][(pc = "done" /\ impl = "Local" /\ cacheFile # None)
         => (cacheFile' = cacheFile /\ pc' = "state_store")]_vars

\* What holds: a file that parses is loaded and left as it is; a missing
\* file is created empty.
C23_ParsedFileUntouched ==
    [][(pc = "done" /\ impl = "Local")
         => IF cacheFile.kind = "json"
            THEN cacheFile' = cacheFile /\ cache' = cacheFile.urls
            ELSE cache' = {} /\ cacheFile' \in { cacheFile, [kind |-> "json", urls |-> {}] }]_vars

\* load_or_create has replaced a file it could not read by an empty cache.
C23_FileOverwritten ==
    /\ pc = "state_store"
    /\ cacheFile = [kind |-> "json", urls |-> {}]
    /\ log[Len(log)] = Ev("ok", "load_or_create", <<>>)

\* TRUE when the URL is in the cache's set c or in the cache file f.
Recorded(c, f, url) == url \in c \/ (f.kind = "json" /\ url \in f.urls)

\* The manifest of the project initialize returned is on the forge.
ManifestPushed ==
    /\ Resolve(ManifestPath, ManifestName) \in DOMAIN forge.files
    /\ forge.files[Resolve(ManifestPath, ManifestName)] = Serialize(result.project)

\* As long as initialize has not returned Ok, a step of create leaves the
\* cache and its file alone and leaves no .skootrs in the working copy.
NothingBeforeInitialized ==
    result.kind # "Ok" =>
        /\ cache' = cache
        /\ cacheFile' = cacheFile
        /\ Resolve(ManifestPath, ManifestName) \notin DOMAIN disk'

\* C28 as stated: .skootrs is persisted (written, committed, pushed) and
\* the URL recorded only after initialize returned success, and the URL is
\* recorded only after the manifest was persisted: a failed initialize
\* leaves no .skootrs and the cache set and file unchanged, and when the
\* manifest is not persisted the URL is not added to the cache.
C28_RecordedOnlyAfterPersisted ==
    [][/\ NothingBeforeInitialized
       /\ (result.kind = "Ok"
            /\ Recorded(cache', cacheFile', full_url(result.project.repo))
            /\ ~Recorded(cache, cacheFile, full_url(result.project.repo)))
           => ManifestPushed]_vars

\* C28 by what the calls returned: the same before initialize returned Ok,
\* and the URL is recorded only in the step that follows the Ok return of
\* the state store's create, with .skootrs written in the working copy.
C28_RecordedOnlyAfterReturnedOk ==
    [][/\ NothingBeforeInitialized
       /\ (result.kind = "Ok"
            /\ Recorded(cache', cacheFile', full_url(result.project.repo))
            /\ ~Recorded(cache, cacheFile, full_url(result.project.repo)))
           => /\ log[Len(log)] = Ev("ok", "state_store", <<>>)
              /\ Resolve(ManifestPath, ManifestName) \in DOMAIN disk
              /\ ManifestOnDisk = Serialize(result.project)]_vars

\* create returned Ok and the URL is in the cache file, but the push of the
\* manifest had failed: .skootrs is not on the forge.
C28_RecordedUnpushed ==
    /\ pc = "created"
    /\ impl = "Local"
    /\ Recorded({}, cacheFile, full_url(result.project.repo))
    /\ Resolve(ManifestPath, ManifestName) \notin DOMAIN forge.files
    /\ \E i \in DOMAIN log : log[i] = Ev("git", "push", << "exit_fail" >>)

(***************************************************************************)
(* Facet plans: initialize from the facet steps on, for plans other than   *)
(* the default one.                                                        *)
(***************************************************************************)
\* Most facets of a source plan.
MaxPlan == 2

\* The facet types a source plan may ask for: every type a content handler
\* renders, one no arm renders, and one that is an API facet.
PlanTypes == DefaultHandled \cup LanguageHandled \cup {"SBOMGenerator", "VulnerabilityReporting"}

\* The plans: distinct facet types in any order.
Plans(types, n) ==
    { p \in Texts(types, n) : p # <<>> /\ \A i, j \in DOMAIN p : p[i] = p[j] => i = j }

PlanOf(variant, p) == [i \in DOMAIN p |-> FacetCreateParams(variant, p[i])]

\* initialize has created the repo, cloned it and run the ecosystem tooling;
\* it goes on with a source plan, or, the source plan being empty and
\* committed, with the API plan in one of its orders.
FacetInit ==
    /\ impl = "Local"
    /\ params \in [name : {"demo"}, repo_name : {"demo"}, owner_kind : {"User"},
                    ecosystem : Ecosystems, eco_key : {"demo"}, parent_path : {"/tmp"}]
    /\ log = <<>>
    /\ wc = "clone"
    /\ disk = EcosystemFiles(params)
    /\ forge = [exists |-> TRUE, files |-> NoFiles, commits |-> <<>>,
                branch_protection |-> FALSE, vulnerability_reporting |-> FALSE]
    /\ repo = [kind |-> "Github", name |-> params.repo_name,
               organization |-> [kind |-> params.owner_kind, name |-> OwnerName]]
    /\ source = SourcePath(params.parent_path, repo)
    /\ ecosystem = InitializedEcosystemOf(params)
    /\ \/ /\ pc = "source_facets"
          /\ tasks \in { NewTasks(PlanOf("SourceBundle", p)) : p \in Plans(PlanTypes, MaxPlan) }
          /\ srcFacets = None
          /\ git = [index |-> NoFiles, head |-> NoFiles, commits |-> <<>>]
       \/ /\ pc = "api_facets"
          /\ tasks \in { NewTasks(PlanOf("APIBundle", p)) :
                            p \in Plans({"BranchProtection", "VulnerabilityReporting"}, 2) }
          /\ srcFacets = <<>>
          /\ git = [index |-> disk, head |-> disk, commits |-> << InitialCommitMessage >>]
    /\ apiFacets = None
    /\ result = None
    /\ cache = {}
    /\ cacheFile = None
    /\ rd = Idle
    /\ call = None

FacetNext == SourceFacetPoll \/ CommitAndPush \/ ApiFacetPoll \/ ApiFacetResponse

FacetSpec == FacetInit /\ [][FacetNext]_vars

(***************************************************************************)
(* Properties of facet initialization.                                     *)
(***************************************************************************)
\* The source facet types polled so far, in order.
PolledTypes ==
    LET polls == SelectSeq(log, LAMBDA e : e.kind = "poll")
    IN  [i \in DOMAIN polls |-> polls[i].what]

\* A source-bundle facet type with no content in the catalogue for the
\* ecosystem: rendered by no handler, or by the Go handler only and asked
\* for in a Maven project.
NotInCatalogue(eco, t) ==
    /\ t \notin DefaultHandled
    /\ eco = "Maven" \/ t \notin LanguageHandled

\* C24 as stated: when a facet outside the catalogue is initialized, the
\* facet's initialization returns an error, and initialize_all and with it
\* initialize return it as they do any failure of a facet.
C24_UnsupportedIsError ==
    (tasks # <<>> /\ tasks[1].variant = "SourceBundle"
       /\ PolledTypes # <<>>
       /\ NotInCatalogue(ecosystem.kind, PolledTypes[Len(PolledTypes)]))
    => /\ pc = "failed"
       /\ result = [kind |-> "Err", step |-> "source_facets"]

\* A Go project was asked for an SBOMGenerator source bundle: the facet's
\* initialization panicked and initialize returned nothing.
C24_UnsupportedPanics ==
    /\ pc = "panicked"
    /\ ecosystem.kind = "Go"
    /\ PolledTypes = << "SBOMGenerator" >>
    /\ result = None


\* The source-bundle future i of the current join has been polled and its
\* facet type is one the default handler renders for every ecosystem.
IndependentPolled(i) ==
    /\ tasks[i].variant = "SourceBundle"
    /\ tasks[i].facet_type \in DefaultHandled
    /\ \E j \in DOMAIN log : log[j] = Ev("poll", tasks[i].facet_type, <<>>)

\* Future i did not panic, and if it returned Ok its files are in the
\* working copy as rendered and its facet is the SourceBundleFacet naming
\* them with their digests.
IndependentInitialized(i) ==
    LET t == tasks[i].facet_type
        sfc == SourceFilesContent(t, params.name)
    IN  /\ \A j \in DOMAIN log : log[j] # Ev("panic", t, <<>>)
        /\ tasks[i].status # "idle"
        /\ tasks[i].status = "ok" =>
              /\ \A f \in DOMAIN sfc :
                    /\ Resolve(sfc[f].path, sfc[f].name) \in DOMAIN disk
                    /\ disk[Resolve(sfc[f].path, sfc[f].name)] = sfc[f].content
              /\ tasks[i].facet =
                    [kind |-> "SourceBundle", facet_type |-> t,
                     source_files |->
                        Some([f \in DOMAIN sfc |->
                                [name |-> sfc[f].name, path |-> sfc[f].path,
                                 hash |-> Sha256Hex(sfc[f].content)]]),
                     source_files_content |-> None]

\* C30 as stated: for every ecosystem, Maven as well as Go, initializing an
\* ecosystem-independent source-bundle facet (Readme, License,
\* SecurityPolicy, Scorecard, SAST, SecurityInsights) writes its file and
\* returns a SourceBundleFacet.
C30_IndependentForEveryEcosystem ==
    \A i \in DOMAIN tasks : IndependentPolled(i) => IndependentInitialized(i)

\* C30 for Go projects only: there the ecosystem-independent facets are
\* written and returned.
C30_IndependentForGo ==
    ecosystem.kind = "Go" =>
        \A i \in DOMAIN tasks : IndependentPolled(i) => IndependentInitialized(i)

\* A Go project's Readme facet was written and returned.
C30_GoReadmeInitialized ==
    /\ ecosystem.kind = "Go"
    /\ \E i \in DOMAIN tasks :
          /\ IndependentPolled(i)
          /\ tasks[i].facet_type = "Readme"
          /\ tasks[i].status = "ok"
          /\ << "README.md" >> \in DOMAIN disk

\* A Maven project's Readme facet was polled first: it panicked, nothing
\* was written beyond the ecosystem's files and nothing was returned.
C30_MavenReadmePanics ==
    /\ ecosystem.kind = "Maven"
    /\ PolledTypes = << "Readme" >>
    /\ pc = "panicked"
    /\ << "README.md" >> \notin DOMAIN disk
    /\ tasks[1].facet = None


\* The positions of the file writes in the history of the current run.
Writes == { i \in DOMAIN log : log[i].kind = "write" }

\* C26: within an initialize_all call no file is written twice, neither by
\* two facets nor by one: the paths of the catalogue's source-bundle facets,
\* taken below the working copy with "./" removed, are pairwise different,
\* and none of them is the manifest .skootrs.
C26_DisjointPaths ==
    \A i, j \in Writes :
        /\ log[i].arg = log[j].arg => i = j
        /\ log[i].arg # << ".skootrs" >>

\* Two facets of one call wrote into the same directory, .github/workflows.
C26_Witness ==
    \E i, j \in Writes :
        /\ log[i].what = "SAST" /\ log[j].what = "Fuzzing"
        /\ SubSeq(log[i].arg, 1, 2) = << ".github", "workflows" >>
        /\ SubSeq(log[j].arg, 1, 2) = << ".github", "workflows" >>
        /\ pc = "commit"


\* The facet types of the source plan and of the API plan of the current
\* run, as sets: what the plans hold whatever their order.
SourceTypesPolled ==
    { t \in DefaultHandled \cup LanguageHandled :
        \E i \in DOMAIN log : log[i] = Ev("poll", t, <<>>) }

ApiTypesPolled ==
    { t \in {"BranchProtection", "VulnerabilityReporting"} :
        \E i \in DOMAIN log : log[i] = Ev("poll", t, <<>>) }

\* The files a set of source-bundle facet types renders, by resolved path.
FilesOfTypes(types) ==
    UNION { { Resolve(SourceFilesContent(t, params.name)[f].path,
                      SourceFilesContent(t, params.name)[f].name) :
                f \in DOMAIN SourceFilesContent(t, params.name) } : t \in types }

\* The facet of type t as a function of the plan's set of types alone.
FacetOfType(t) ==
    IF t \in ApiTypesPolled THEN APIBundleFacetOf(t, repo)
    ELSE LET sfc == SourceFilesContent(t, params.name)
         IN  [kind |-> "SourceBundle", facet_type |-> t,
              source_files |->
                 Some([f \in DOMAIN sfc |->
                         [name |-> sfc[f].name, path |-> sfc[f].path,
                          hash |-> Sha256Hex(sfc[f].content)]]),
              source_files_content |-> None]

\* C27: when every facet of a run succeeded, the facet map initialize
\* returns and the files it wrote are determined by the sets of facet types
\* in the two plans: the order of the plans' entries and the order in which
\* the API responses arrive make no difference.
C27_OrderIndependent ==
    pc = "done" =>
        /\ result.project.facets =
              [k \in { TypeKey(t) : t \in SourceTypesPolled \cup ApiTypesPolled } |->
                  FacetOfType(k.value)]
        /\ { log[i].arg : i \in Writes } = FilesOfTypes(SourceTypesPolled)
        /\ DOMAIN disk = FilesOfTypes(SourceTypesPolled) \cup DOMAIN EcosystemFiles(params)
        /\ \A t \in SourceTypesPolled :
              \A f \in DOMAIN SourceFilesContent(t, params.name) :
                 LET c == SourceFilesContent(t, params.name)[f]
                 IN  disk[Resolve(c.path, c.name)] = c.content

\* A run succeeded whose source plan was in the reverse of the default
\* order and whose API responses arrived in the reverse of the plan's order.
C27_Witness ==
    /\ pc = "done"
    /\ PolledTypes = << "DefaultSourceCode", "Readme",
                        "BranchProtection", "VulnerabilityReporting" >>
    /\ \E i, j \in DOMAIN log :
          /\ i < j
          /\ log[i] = Ev("response", "VulnerabilityReporting", << "ok" >>)
          /\ log[j] = Ev("response", "BranchProtection", << "ok" >>)


(***************************************************************************)
(* EcosystemService::initialize on its own: the value it returns for each  *)
(* params and each run of the tooling subprocess.                          *)
(***************************************************************************)
\* What the subprocess wrote to stderr: a text, or bytes that are not UTF-8.
Stderrs ==
    { [utf8 |-> TRUE, text |-> x] : x \in Texts({"go:", "malformed"}, MaxFieldLen) }
    \cup { [utf8 |-> FALSE, text |-> <<>>] }

\* The runs of the tooling subprocess: not spawned, or exited with a status
\* after writing to stderr.
ToolRuns ==
    { [outcome |-> "spawn_err", stderr |-> [utf8 |-> TRUE, text |-> <<>>]] }
    \cup [outcome : {"exit_ok", "exit_fail"}, stderr : Stderrs]

\* LocalGoEcosystemHandler::initialize: on a failed exit the message is
\* format!("Failed to run go mod init: {}", String::from_utf8(stderr)?).
LocalGoEcosystemHandler(run) ==
    IF EcosystemHandlerInitialize(run.outcome) = "ok" THEN Ok("()")
    ELSE IF run.outcome = "spawn_err" THEN Err(<< "No such file or directory" >>)
    ELSE IF run.stderr.utf8
         THEN Err(<< "Failed to run go mod init: " >> \o run.stderr.text)
         ELSE Err(<< "invalid utf-8 sequence" >>)

\* LocalMavenEcosystemHandler::initialize: on a failed exit the message is
\* the literal "Failed to run mvn generate".
LocalMavenEcosystemHandler(run) ==
    IF EcosystemHandlerInitialize(run.outcome) = "ok" THEN Ok("()")
    ELSE IF run.outcome = "spawn_err" THEN Err(<< "No such file or directory" >>)
    ELSE Err(<< "Failed to run mvn generate" >>)

\* LocalEcosystemService::initialize: the handler's error, or the
\* InitializedEcosystem built from the params.
LocalEcosystemServiceInitialize(p, run) ==
    LET handled == IF p.ecosystem = "Go" THEN LocalGoEcosystemHandler(run)
                   ELSE LocalMavenEcosystemHandler(run)
    IN  IF handled.kind = "Err" THEN handled ELSE Ok(InitializedEcosystemOf(p))

EcosystemCallInit ==
    /\ call \in { Value("EcosystemParams", [params |-> p, run |-> r]) :
                    p \in { q \in ProjectCreateParams :
                              /\ q.repo_name = q.name
                              /\ q.owner_kind = "User"
                              /\ q.parent_path = "/tmp" },
                    r \in ToolRuns }
    /\ rd = Idle
    /\ NoProject

EcosystemCall ==
    /\ call.type = "EcosystemParams"
    /\ call' = TryConverted("InitializedEcosystem",
                            LocalEcosystemServiceInitialize(call.val.params, call.val.run))
    /\ UNCHANGED <<rd, impl, params, pc, log, wc, disk, git, forge, repo, source,
                   ecosystem, tasks, srcFacets, apiFacets, result, cache, cacheFile>>

EcosystemCallNext == EcosystemCall

EcosystemCallSpec == EcosystemCallInit /\ [][EcosystemCallNext]_vars

\* C25 as stated: initialize returns the InitializedEcosystem mirroring its
\* params (Go{name, host}, Maven{group_id, artifact_id}) exactly when the
\* subprocess exited with status 0, and on a non-zero exit it returns an
\* error whose message includes the subprocess's stderr, for Go and for
\* Maven.
C25_MirrorOrStderr ==
    After(1, "EcosystemParams") =>
        LET p == Start.val.params
            run == Start.val.run
        IN  /\ call.type = "InitializedEcosystem" <=> run.outcome = "exit_ok"
            /\ call.type = "InitializedEcosystem" =>
                  call.val = IF p.ecosystem = "Go"
                             THEN [kind |-> "Go", name |-> p.name, host |-> p.eco_key]
                             ELSE [kind |-> "Maven", group_id |-> p.eco_key,
                                   artifact_id |-> p.name]
            /\ run.outcome = "exit_fail" =>
                  /\ call.type = "Err"
                  /\ run.stderr.utf8
                  /\ Contains(call.val.error, run.stderr.text)

\* C25 without the stderr of Maven: the InitializedEcosystem mirroring the
\* params is returned exactly when the subprocess exited with status 0;
\* every other run returns an error; the error of a failed `go mod init`
\* whose stderr is UTF-8 includes that stderr.
C25_MirrorIffExitZero ==
    After(1, "EcosystemParams") =>
        LET p == Start.val.params
            run == Start.val.run
        IN  /\ call.type = "InitializedEcosystem" <=> run.outcome = "exit_ok"
            /\ call.type = "InitializedEcosystem" =>
                  call.val = IF p.ecosystem = "Go"
                             THEN [kind |-> "Go", name |-> p.name, host |-> p.eco_key]
                             ELSE [kind |-> "Maven", group_id |-> p.eco_key,
                                   artifact_id |-> p.name]
            /\ call.type # "InitializedEcosystem" => call.type = "Err"
            /\ (run.outcome = "exit_fail" /\ p.ecosystem = "Go" /\ run.stderr.utf8) =>
                  Contains(call.val.error, run.stderr.text)

\* `mvn archetype:generate` exited non-zero after writing to stderr: the
\* error returned does not hold what it wrote.
C25_MavenStderrDropped ==
    /\ After(1, "EcosystemParams")
    /\ Start.val.params.ecosystem = "Maven"
    /\ Start.val.run = [outcome |-> "exit_fail",
                         stderr |-> [utf8 |-> TRUE, text |-> << "malformed" >>]]
    /\ call.type = "Err"
    /\ ~Contains(call.val.error, << "malformed" >>)

\* `go mod init` exited non-zero after writing to stderr: the error
\* returned holds what it wrote.
C25_GoStderrKept ==
    /\ After(1, "EcosystemParams")
    /\ Start.val.params.ecosystem = "Go"
    /\ Start.val.run = [outcome |-> "exit_fail",
                         stderr |-> [utf8 |-> TRUE, text |-> << "go:", "malformed" >>]]
    /\ call.val = Err(<< "Failed to run go mod init: ", "go:", "malformed" >>)


(***************************************************************************)
(* The reference cache on its own: processes open ./skootcache, record     *)
(* URLs and archive projects.                                              *)
(***************************************************************************)
\* Most operations on the cache in one run.
MaxCommands == 4

\* The repos the commands are about; OldUrl is the URL of the second.
CacheRepos ==
    { [kind |-> "Github", name |-> n, organization |-> [kind |-> "User", name |-> OwnerName]]
        : n \in {"demo", "old"} }

CacheUrls == { full_url(r) : r \in CacheRepos }

\* InMemoryProjectReferenceCache::list
list(c) == c

\* InMemoryProjectReferenceCache::load: the set read from the file, or the
\* error of read_to_string / serde_json.
load(f) == IF f.kind = "json" THEN Ok(f.urls) ELSE Err("load")

\* Variant of save that writes the cache without the URLs the file held.
save_Fresh(f, c) ==
    { [kind |-> "json", urls |-> c \ (IF f.kind = "json" THEN f.urls ELSE {})] }

\* InMemoryProjectReferenceCache::save: the files that can be at save_path
\* after a save that returned Ok: the whole set c, serialized.
save(f, c) == { [kind |-> "json", urls |-> c] }

\* The files that can be at save_path after a save that returned Err:
\* fs::write could not open the file, or stopped part-way.
save_failed(f) == { f, NotJson }

\* The operations done so far.
Commands == SelectSeq(log, LAMBDA e : e.kind \in {"ok", "err", "panic"})

CacheInit ==
    /\ NoInitialize
    /\ call = None
    /\ rd = Idle
    /\ cache = {}
    /\ cacheFile \in {None, NotJson} \cup { [kind |-> "json", urls |-> s] : s \in SUBSET CacheUrls }

\* A process starts with InMemoryProjectReferenceCache::new(path): an empty
\* cache that has not read the file.
CacheNew ==
    /\ rd.pc \in {"idle", "open"}
    /\ Len(Commands) < MaxCommands
    /\ cache' = {}
    /\ rd' = [pc |-> "open"]
    /\ log' = Append(log, Ev("ok", "new", <<>>))
    /\ UNCHANGED <<call, impl, params, pc, wc, disk, git, forge, repo, source, ecosystem,
                   tasks, srcFacets, apiFacets, result, cacheFile>>

\* A process starts with load_or_create(path).
CacheLoadOrCreate ==
    /\ rd.pc \in {"idle", "open"}
    /\ Len(Commands) < MaxCommands
    /\ IF load(cacheFile).kind = "Ok"
       THEN /\ cache' = load(cacheFile).value
            /\ rd' = [pc |-> "open"]
            /\ log' = Append(log, Ev("ok", "load_or_create", <<>>))
            /\ UNCHANGED cacheFile
       ELSE /\ cache' = {}
            /\ \/ /\ cacheFile' \in save(cacheFile, {})
                  /\ rd' = [pc |-> "open"]
                  /\ log' = Append(log, Ev("ok", "load_or_create", <<>>))
               \/ /\ cacheFile' \in save_failed(cacheFile)
                  /\ rd' = Idle
                  /\ log' = Append(log, Ev("err", "load_or_create", <<>>))
    /\ UNCHANGED <<call, impl, params, pc, wc, disk, git, forge, repo, source, ecosystem,
                   tasks, srcFacets, apiFacets, result>>

\* InMemoryProjectReferenceCache::set(repo_url)
CacheSetUrl ==
    /\ rd.pc = "open"
    /\ Len(Commands) < MaxCommands
    /\ \E url \in CacheUrls :
         /\ cache' = cache \cup { url }
         /\ \/ /\ cacheFile' \in save(cacheFile, cache')
               /\ log' = Append(log, Ev("ok", "set", url))
            \/ /\ cacheFile' \in save_failed(cacheFile)
               /\ log' = Append(log, Ev("err", "set", url))
    /\ UNCHANGED <<rd, call, impl, params, pc, wc, disk, git, forge, repo, source,
                   ecosystem, tasks, srcFacets, apiFacets, result>>

\* Variant of ArchiveParams that leaves the repo active.
ArchiveParams_Unarchive == << "archived", ":", "false" >>

\* The body of the request: ArchiveParams { archived: true } as JSON.
ArchiveParams == << "archived", ":", "true" >>

\* LocalRepoService::archive: without GITHUB_TOKEN the expect panics;
\* otherwise one PATCH /repos/{owner}/{repo} goes out, unless the client
\* could not be built, and its error is returned or, when it succeeded,
\* the repo's full URL.
RepoArchive ==
    /\ rd.pc = "open"
    /\ Len(Commands) < MaxCommands
    /\ \E r \in CacheRepos, o \in {"no_token", "build_err", "patch_err", "ok"} :
         LET patch == Ev("patch", "/repos/" \o r.organization.name \o "/" \o r.name,
                         ArchiveParams)
         IN  CASE o = "no_token" ->
                    /\ log' = Append(log, Ev("panic", "archive", full_url(r)))
                    /\ rd' = Idle
               [] o = "build_err" ->
                    /\ log' = Append(log, Ev("err", "archive", full_url(r)))
                    /\ UNCHANGED rd
               [] o = "patch_err" ->
                    /\ log' = log \o << patch, Ev("err", "archive", full_url(r)) >>
                    /\ UNCHANGED rd
               [] o = "ok" ->
                    /\ log' = Append(log, patch)
                    /\ rd' = [pc |-> "archived", url |-> full_url(r)]
    /\ UNCHANGED <<call, impl, params, pc, wc, disk, git, forge, repo, source, ecosystem,
                   tasks, srcFacets, apiFacets, result, cache, cacheFile>>

\* The second step of archive: the URL Repo.archive returned is removed
\* from the reference cache and the cache is persisted.
CacheDelete ==
    /\ rd.pc = "archived"
    /\ cache' = cache \ { rd.url }
    /\ \/ /\ cacheFile' \in save(cacheFile, cache')
          /\ log' = Append(log, Ev("ok", "archive", rd.url))
       \/ /\ cacheFile' \in save_failed(cacheFile)
          /\ log' = Append(log, Ev("err", "archive", rd.url))
    /\ rd' = [pc |-> "open"]
    /\ UNCHANGED <<call, impl, params, pc, wc, disk, git, forge, repo, source, ecosystem,
                   tasks, srcFacets, apiFacets, result>>

CacheNext ==
    \/ CacheNew
    \/ CacheLoadOrCreate
    \/ CacheSetUrl
    \/ RepoArchive
    \/ CacheDelete

CacheSpec == CacheInit /\ [][CacheNext]_vars


(***************************************************************************)
(* Properties of the reference cache.                                      *)
(***************************************************************************)
\* C29: a set(url) that returns Ok, whatever the cache held in memory and
\* whatever was in the file before, leaves in the file exactly the set in
\* memory (a load yields it), with url in it and every URL that was in it
\* before; when url was in it already the set is unchanged.
C29_SetPersistsAll ==
    [][\A url \in CacheUrls :
         log' = Append(log, Ev("ok", "set", url)) =>
            /\ load(cacheFile') = Ok(list(cache'))
            /\ url \in list(cache')
            /\ list(cache) \subseteq list(cache')
            /\ url \in list(cache) => list(cache') = list(cache)]_vars

\* A set failed and left its URL in memory only, over a file that could not
\* be read; the next set, of the other URL, returned Ok and the file holds
\* both.
C29_Witness ==
    /\ Len(log) = 3
    /\ log[1] = Ev("ok", "new", <<>>)
    /\ log[2].kind = "err" /\ log[2].what = "set" /\ log[2].arg # OldUrl
    /\ log[3] = Ev("ok", "set", OldUrl)
    /\ cache = CacheUrls
    /\ cacheFile = [kind |-> "json", urls |-> CacheUrls]

====
